---------------------------- MODULE Spec2Model ----------------------------
(***************************************************************************)
(* A model of the Varuna proving system's public surface in snarkVM:       *)
(* CircuitInfo (degree bounds, maximum degree, canonical bytes), the       *)
(* verifying key's bech32m text form, the universal SRS with circuit       *)
(* setup, prove and verify, and the transaction layer that builds the      *)
(* public inputs of every transition (Process::verify_execution,           *)
(* VM::check_transaction).                                                 *)
(*                                                                         *)
(* The module holds one group of variables per subsystem and one           *)
(* specification per subsystem; a specification leaves the variables of    *)
(* the other subsystems at their idle values.                              *)
(***************************************************************************)
EXTENDS Integers, Sequences, FiniteSets, TLC

(***************************************************************************)
(* Bounds of the model.                                                    *)
(***************************************************************************)
\* CircuitInfo counters range over 0..MaxCount and the one large value BigCount.
MaxCount == 2
\* Stand-in for F::FftParameters::TWO_ADICITY (47 for the BLS12-377 scalar
\* field), scaled down so that a counter of the model can exceed 2^TwoAdicity.
TwoAdicity == 2

VARIABLES
    info,       \* CircuitInfo: the six counters
    ret         \* outcome of the last CircuitInfo call

varsInfo == <<info, ret>>

VARIABLES
    shown,      \* the last encoding made of a verifying key
    parsed      \* the last call of from_str: its input and its result

varsKey == <<shown, parsed>>

VARIABLES
    test_skip_tx_checks,    \* the cargo feature of the same name, fixed by the build
    ledger,                 \* what the stores of the VM hold
    cache,                  \* partially_verified_transactions: the IDs it holds
    vm_ret                  \* the last call into the process or the VM, and its result

varsVM == <<test_skip_tx_checks, ledger, cache, vm_ret>>

VARIABLES
    srs,            \* the power table of the universal SRS
    first_keys,     \* per circuit, the keys its first circuit_setup returned
    proof,          \* the last proof made, with what it was made from
    download,       \* the download_powers_for in flight: the powers it fetched so far
    kept,           \* the first verification of a proof: its arguments and its result
    snark_ret       \* the last call into the SNARK, and its result

varsSnark == <<srs, first_keys, proof, download, kept, snark_ret>>

VARIABLES
    chunks,         \* check_transactions: the chunks of the call that have not started yet
    verifying,      \* the transactions of the chunk under verification that have not finished
    txs_ret         \* the last call of check_transactions: where it is, or its result

varsTxs == <<chunks, verifying, txs_ret>>

VARIABLES
    committee,      \* the committee at hand, with the validators it was made from
    committee_ret   \* the last call on the committee, and its result

varsCommittee == <<committee, committee_ret>>

(***************************************************************************)
(* Helpers on sequences and numbers.                                       *)
(***************************************************************************)
Max(a, b) == IF a >= b THEN a ELSE b

RECURSIVE MaxOfSeq(_)
MaxOfSeq(s) == IF Len(s) = 1 THEN s[1] ELSE Max(s[1], MaxOfSeq(Tail(s)))

\* usize::checked_next_power_of_two: the smallest power of two >= n (1 for n = 0).
RECURSIVE NextPow2From(_, _)
NextPow2From(p, n) == IF p >= n THEN p ELSE NextPow2From(2 * p, n)

next_power_of_two(n) == NextPow2From(1, n)

\* usize::trailing_zeros of a power of two.
RECURSIVE trailing_zeros(_)
trailing_zeros(p) == IF p <= 1 THEN 0 ELSE 1 + trailing_zeros(p \div 2)

(***************************************************************************)
(* CircuitInfo (circuit_info.rs).                                          *)
(***************************************************************************)
\* A counter value that needs two bytes and a domain above 2^TwoAdicity.
BigCount == 258

Counters == (0 .. MaxCount) \cup {BigCount}

CircuitInfo ==
    [num_public_inputs : Counters, num_variables : Counters, num_constraints : Counters,
     num_non_zero_a : Counters, num_non_zero_b : Counters, num_non_zero_c : Counters]

None == [some |-> FALSE]
Some(v) == [some |-> TRUE, val |-> v]

\* EvaluationDomain::compute_size_of_domain: the smallest power of two >= n,
\* or None when it exceeds the largest power-of-two domain of the field.
compute_size_of_domain(num_coeffs) ==
    LET size == next_power_of_two(num_coeffs)
    IN  IF trailing_zeros(size) <= TwoAdicity THEN Some(size) ELSE None

Ok(v) == [kind |-> "ok", val |-> v]
Err(e) == [kind |-> "err", error |-> e]
Panic(m) == [kind |-> "panic", msg |-> m]

\* AHPForR1CS::zk_bound().unwrap_or(0): 1 in the hiding mode, 0 otherwise.
zk_bound(is_zk) == IF is_zk THEN 1 ELSE 0

\* AHPForR1CS::max_degree: a Result; PolynomialDegreeTooLarge when a domain is
\* not supported.
ahp_max_degree(num_constraints, num_variables, num_non_zero, is_zk) ==
    LET c == compute_size_of_domain(num_constraints)
        v == compute_size_of_domain(num_variables)
        n == compute_size_of_domain(num_non_zero)
        b == zk_bound(is_zk)
    IN  IF ~c.some \/ ~v.some \/ ~n.some
        THEN Err("PolynomialDegreeTooLarge")
        ELSE Ok(MaxOfSeq(<< 2 * c.val + 2 * b - 2,
                            2 * v.val + 2 * b - 2,
                            IF is_zk THEN c.val + 2 * b - 1 ELSE 0,
                            v.val,
                            c.val,
                            n.val - 1 >>))

\* CircuitInfo::max_degree: unwraps the Result of AHPForR1CS::max_degree.
max_degree(self, is_zk) ==
    LET max_non_zero == Max(Max(self.num_non_zero_a, self.num_non_zero_b), self.num_non_zero_c)
        r == ahp_max_degree(self.num_constraints, self.num_variables, max_non_zero, is_zk)
    IN  IF r.kind = "ok" THEN r ELSE Panic("unwrap on Err")

\* One element of the array of get_degree_bounds:
\*   compute_size_of_domain(n).unwrap() - 2
\* on usize.  With overflow checks (debug builds) a subtraction below zero
\* panics; without them (release builds) it wraps: the element v < 0 stands
\* for the usize 2^64 + v.
degree_bound(n, overflow_checks) ==
    LET d == compute_size_of_domain(n)
    IN  IF ~d.some THEN Panic("unwrap on None")
        ELSE IF d.val < 2 /\ overflow_checks THEN Panic("attempt to subtract with overflow")
        ELSE Ok(d.val - 2)

RECURSIVE collect(_)
\* The array literal: the elements are evaluated in order, the first panic ends the call.
collect(rs) ==
    IF rs = <<>> THEN Ok(<<>>)
    ELSE IF Head(rs).kind # "ok" THEN Head(rs)
    ELSE LET rest == collect(Tail(rs))
         IN  IF rest.kind # "ok" THEN rest ELSE Ok(<<Head(rs).val>> \o rest.val)

\* CircuitInfo::get_degree_bounds.
get_degree_bounds(self, overflow_checks) ==
    collect(<< degree_bound(self.num_variables, overflow_checks),
               degree_bound(self.num_non_zero_a, overflow_checks),
               degree_bound(self.num_non_zero_b, overflow_checks),
               degree_bound(self.num_non_zero_c, overflow_checks) >>)

\* u64::write_le: the eight bytes of n, least significant first.
RECURSIVE le_bytes(_, _)
le_bytes(n, width) == IF width = 0 THEN <<>> ELSE <<n % 256>> \o le_bytes(n \div 256, width - 1)

u64_write_le(n) == le_bytes(n, 8)

\* A variant of write_le with two counters exchanged.
write_le_swapped(self) ==
    u64_write_le(self.num_public_inputs) \o u64_write_le(self.num_constraints)
        \o u64_write_le(self.num_variables) \o u64_write_le(self.num_non_zero_a)
        \o u64_write_le(self.num_non_zero_b) \o u64_write_le(self.num_non_zero_c)

\* ToBytes for CircuitInfo.
write_le(self) ==
    u64_write_le(self.num_public_inputs) \o u64_write_le(self.num_variables)
        \o u64_write_le(self.num_constraints) \o u64_write_le(self.num_non_zero_a)
        \o u64_write_le(self.num_non_zero_b) \o u64_write_le(self.num_non_zero_c)

NoCall == [op |-> "none"]

InitInfo ==
    /\ info \in CircuitInfo
    /\ ret = NoCall

IdleInfo ==
    /\ info = [num_public_inputs |-> 0, num_variables |-> 0, num_constraints |-> 0,
               num_non_zero_a |-> 0, num_non_zero_b |-> 0, num_non_zero_c |-> 0]
    /\ ret = NoCall

\* A call of info.get_degree_bounds::<F>() in a build with or without overflow checks.
CallGetDegreeBounds ==
    /\ \E overflow_checks \in BOOLEAN :
          ret' = [op |-> "get_degree_bounds", checks |-> overflow_checks,
                  out |-> get_degree_bounds(info, overflow_checks)]
    /\ UNCHANGED <<info, varsKey, varsVM, varsSnark, varsTxs, varsCommittee>>

\* A call of info.max_degree::<F, MM>() for a hiding or non-hiding mode MM.
CallMaxDegree ==
    /\ \E is_zk \in BOOLEAN :
          ret' = [op |-> "max_degree", zk |-> is_zk, out |-> max_degree(info, is_zk)]
    /\ UNCHANGED <<info, varsKey, varsVM, varsSnark, varsTxs, varsCommittee>>

\* A call of info.write_le(w) on an empty writer.
CallWriteLe ==
    /\ ret' = [op |-> "write_le", out |-> write_le(info)]
    /\ UNCHANGED <<info, varsKey, varsVM, varsSnark, varsTxs, varsCommittee>>

NextInfo == CallGetDegreeBounds \/ CallMaxDegree \/ CallWriteLe

(***************************************************************************)
(* Claims on CircuitInfo.                                                  *)
(***************************************************************************)
\* d(n): the smallest power of two greater than or equal to n.
SmallestPow2AtLeast(n) ==
    CHOOSE p \in {2 ^ k : k \in 0 .. 10} : p >= n /\ \A q \in {2 ^ k : k \in 0 .. 10} : q >= n => p <= q

DomainSupported(n) == SmallestPow2AtLeast(n) <= 2 ^ TwoAdicity

BoundCounters(i) == <<i.num_variables, i.num_non_zero_a, i.num_non_zero_b, i.num_non_zero_c>>

\* C6: for every CircuitInfo (whose four domains the field supports),
\* get_degree_bounds returns [d(num_variables)-2, d(num_non_zero_a)-2,
\* d(num_non_zero_b)-2, d(num_non_zero_c)-2] in that order and no element
\* underflows.
C6_DegreeBoundsNeverUnderflow ==
    (ret.op = "get_degree_bounds" /\ \A k \in 1 .. 4 : DomainSupported(BoundCounters(info)[k])) =>
        /\ ret.out.kind = "ok"
        /\ ret.out.val = [k \in 1 .. 4 |-> SmallestPow2AtLeast(BoundCounters(info)[k]) - 2]
        /\ \A k \in 1 .. 4 : ret.out.val[k] >= 0

\* The part of C6 that the code satisfies: with every one of the four counters
\* at least 2, the array is as stated.
DegreeBoundsAboveOne ==
    (ret.op = "get_degree_bounds"
        /\ \A k \in 1 .. 4 : DomainSupported(BoundCounters(info)[k]) /\ BoundCounters(info)[k] >= 2) =>
        /\ ret.out.kind = "ok"
        /\ ret.out.val = [k \in 1 .. 4 |-> SmallestPow2AtLeast(BoundCounters(info)[k]) - 2]
        /\ \A k \in 1 .. 4 : ret.out.val[k] >= 0

\* C7: when a counter needs a domain above the field's 2-adicity (and no
\* counter is so small that its bound underflows), get_degree_bounds and
\* max_degree hand an error to the caller and do not panic.
C7_DomainTooLargeIsReturned ==
    LET needed == IF ret.op = "get_degree_bounds" THEN BoundCounters(info)
                  ELSE <<info.num_constraints, info.num_variables, info.num_non_zero_a,
                         info.num_non_zero_b, info.num_non_zero_c>>
    IN  (ret.op \in {"get_degree_bounds", "max_degree"}
            /\ (\A k \in 1 .. Len(needed) : needed[k] >= 2)
            /\ (\E j \in 1 .. Len(needed) : ~DomainSupported(needed[j]))) =>
            ret.out.kind = "err"

RECURSIVE from_le(_)
from_le(bytes) == IF bytes = <<>> THEN 0 ELSE Head(bytes) + 256 * from_le(Tail(bytes))

AllCounters(i) ==
    <<i.num_public_inputs, i.num_variables, i.num_constraints,
      i.num_non_zero_a, i.num_non_zero_b, i.num_non_zero_c>>

\* The infos compared with the written one: every exchange of two counters and
\* every change of one counter.
Probes(i) ==
    {[num_public_inputs |-> p[1], num_variables |-> p[2], num_constraints |-> p[3],
      num_non_zero_a |-> p[4], num_non_zero_b |-> p[5], num_non_zero_c |-> p[6]] :
        p \in {[k \in 1 .. 6 |-> IF k = a THEN AllCounters(i)[b]
                                  ELSE IF k = b THEN AllCounters(i)[a] ELSE AllCounters(i)[k]] :
                    a \in 1 .. 6, b \in 1 .. 6}
              \cup {[AllCounters(i) EXCEPT ![a] = c] : a \in 1 .. 6, c \in Counters}}

\* C10: write_le writes 48 bytes, the six counters as u64 little-endian in the
\* order num_public_inputs, num_variables, num_constraints, num_non_zero_a,
\* num_non_zero_b, num_non_zero_c; two infos have the same bytes iff their
\* counters are equal.
C10_WriteLeSixU64 ==
    ret.op = "write_le" =>
        /\ Len(ret.out) = 48
        /\ \A k \in 1 .. 6 :
              /\ from_le(SubSeq(ret.out, 8 * (k - 1) + 1, 8 * k)) = AllCounters(info)[k]
              /\ \A j \in 8 * (k - 1) + 1 .. 8 * k : ret.out[j] \in 0 .. 255
        /\ \A other \in Probes(info) : (write_le(other) = ret.out) <=> (other = info)

\* A written info whose counters are pairwise different and include a
\* two-byte value.
C10_Witness ==
    /\ ret.op = "write_le"
    /\ info.num_variables = BigCount
    /\ info.num_constraints = 1
    /\ info.num_public_inputs = 2
    /\ ret.out[9] = 2 /\ ret.out[10] = 1

(***************************************************************************)
(* The verifying key's text form (verifying_key/parse.rs).                 *)
(***************************************************************************)
\* The number of 5-bit groups of the longest string handed to from_str.
MaxData == 5

VERIFYING_KEY == "verifier"

\* The verifying keys of the model: a 16-bit counter of the circuit and a
\* one-byte commitment.
VerifyingKeys == [num_constraints : {1, BigCount}, commitment : {0, 255}]

\* VerifyingKey::to_bytes_le: fixed order, fixed width, little-endian.
vk_to_bytes_le(vk) == le_bytes(vk.num_constraints, 2) \o <<vk.commitment>>

\* VerifyingKey::read_le: reads the fields from the front of the bytes; an
\* error when the bytes end before the key does.
vk_read_le(bytes) ==
    IF Len(bytes) < 3 THEN Err("read_le")
    ELSE Ok([num_constraints |-> bytes[1] + 256 * bytes[2], commitment |-> bytes[3]])

\* The bits of a value of the given width, most significant first.
RECURSIVE bits_of(_, _)
bits_of(v, width) == IF width = 0 THEN <<>> ELSE bits_of(v \div 2, width - 1) \o <<v % 2>>

RECURSIVE value_of(_)
value_of(bits) ==
    IF bits = <<>> THEN 0 ELSE 2 * value_of(SubSeq(bits, 1, Len(bits) - 1)) + bits[Len(bits)]

RECURSIVE concat_bits(_, _)
concat_bits(values, width) ==
    IF values = <<>> THEN <<>> ELSE bits_of(Head(values), width) \o concat_bits(Tail(values), width)

RECURSIVE group_bits(_, _)
group_bits(bits, width) ==
    IF Len(bits) < width THEN <<>>
    ELSE <<value_of(SubSeq(bits, 1, width))>> \o group_bits(SubSeq(bits, width + 1, Len(bits)), width)

zeros(n) == [k \in 1 .. n |-> 0]

\* bech32 ToBase32 for bytes: convert_bits(8 -> 5, pad = true).
to_base32(bytes) ==
    LET bits == concat_bits(bytes, 8)
        pad == (5 - (Len(bits) % 5)) % 5
    IN  group_bits(bits \o zeros(pad), 5)

\* bech32 FromBase32 for Vec<u8>: convert_bits(5 -> 8, pad = false); the bits
\* left over must be fewer than 5 and all zero.
from_base32(data) ==
    LET bits == concat_bits(data, 5)
        left == Len(bits) % 8
        rest == SubSeq(bits, Len(bits) - left + 1, Len(bits))
    IN  IF left >= 5 \/ \E k \in 1 .. left : rest[k] # 0
        THEN Err("InvalidPadding")
        ELSE Ok(group_bits(bits, 8))

\* bech32::encode: a string is its human-readable part, its data and the
\* checksum that closes it; the checksum tells the variant.
bech32_encode(hrp, data, variant) == [hrp |-> hrp, data |-> data, checksum |-> variant]

\* bech32::decode: fails on a string whose checksum is of neither variant.
bech32_decode(key) ==
    IF key.checksum \notin {"Bech32", "Bech32m"} THEN Err("InvalidChecksum")
    ELSE Ok([hrp |-> key.hrp, data |-> key.data, variant |-> key.checksum])

\* A variant of from_str that looks at the variant before the prefix.
from_str_variant_first(key) ==
    LET d == bech32_decode(key)
    IN  IF d.kind # "ok" THEN d
        ELSE IF d.val.variant # "Bech32m" THEN Err("not bech32m encoded")
        ELSE IF d.val.data = <<>> THEN Err("data field is empty")
        ELSE IF d.val.hrp # VERIFYING_KEY THEN Err("invalid prefix")
        ELSE LET bytes == from_base32(d.val.data)
             IN  IF bytes.kind # "ok" THEN bytes ELSE vk_read_le(bytes.val)

\* FromStr for VerifyingKey.
from_str(key) ==
    LET d == bech32_decode(key)
    IN  IF d.kind # "ok" THEN d
        ELSE IF d.val.hrp # VERIFYING_KEY THEN Err("invalid prefix")
        ELSE IF d.val.data = <<>> THEN Err("data field is empty")
        ELSE IF d.val.variant # "Bech32m" THEN Err("not bech32m encoded")
        ELSE LET bytes == from_base32(d.val.data)
             IN  IF bytes.kind # "ok" THEN bytes ELSE vk_read_le(bytes.val)

\* A variant of fmt that encodes as bech32 instead of bech32m.
fmt_bech32(self) == bech32_encode(VERIFYING_KEY, to_base32(vk_to_bytes_le(self)), "Bech32")

\* Display for VerifyingKey.
fmt(self) == bech32_encode(VERIFYING_KEY, to_base32(vk_to_bytes_le(self)), "Bech32m")

\* Serialize for the verifying key, human-readable (serde_json): the Display
\* string as a JSON string.
serde_json_to_string(vk) == [json_string |-> fmt(vk)]

\* Deserialize, human-readable: from_str of the JSON string.
serde_json_from_str(json) == from_str(json.json_string)

\* Serialize, binary (bincode): the length of the bytes as u64, then the bytes.
bincode_serialize(vk) == u64_write_le(Len(vk_to_bytes_le(vk))) \o vk_to_bytes_le(vk)

\* Deserialize, binary: reads the length, then the key from that many bytes.
bincode_deserialize(bytes) ==
    IF Len(bytes) < 8 \/ Len(bytes) < 8 + bytes[1] THEN Err("bincode")
    ELSE vk_read_le(SubSeq(bytes, 9, 8 + bytes[1]))

U5Samples == {0, 31}

RECURSIVE SeqsUpTo(_, _)
SeqsUpTo(S, n) ==
    IF n = 0 THEN {<<>>}
    ELSE LET shorter == SeqsUpTo(S, n - 1)
         IN  shorter \cup {Append(q, x) : q \in {r \in shorter : Len(r) = n - 1}, x \in S}

\* The strings handed to from_str: any prefix, data and checksum.
KeyStrings ==
    [hrp : {VERIFYING_KEY, "prover"}, data : SeqsUpTo(U5Samples, MaxData),
     checksum : {"Bech32m", "Bech32", "invalid"}]

InitKey ==
    /\ shown = [op |-> "none"]
    /\ parsed = [op |-> "none"]

\* vk.to_string(), with the canonical bytes beside it.
Display ==
    /\ \E vk \in VerifyingKeys :
          shown' = [op |-> "fmt", vk |-> vk, bytes |-> vk_to_bytes_le(vk), out |-> fmt(vk)]
    /\ UNCHANGED <<parsed, varsInfo, varsVM, varsSnark, varsTxs, varsCommittee>>

\* serde_json::to_string(&vk).
SerdeJson ==
    /\ \E vk \in VerifyingKeys :
          shown' = [op |-> "json", vk |-> vk, bytes |-> vk_to_bytes_le(vk),
                    out |-> serde_json_to_string(vk)]
    /\ UNCHANGED <<parsed, varsInfo, varsVM, varsSnark, varsTxs, varsCommittee>>

\* bincode::serialize(&vk).
Bincode ==
    /\ \E vk \in VerifyingKeys :
          shown' = [op |-> "bincode", vk |-> vk, bytes |-> vk_to_bytes_le(vk),
                    out |-> bincode_serialize(vk)]
    /\ UNCHANGED <<parsed, varsInfo, varsVM, varsSnark, varsTxs, varsCommittee>>

\* VerifyingKey::from_str on any string.
FromStr ==
    /\ \E key \in KeyStrings : parsed' = [op |-> "from_str", input |-> key, out |-> from_str(key)]
    /\ UNCHANGED <<shown, varsInfo, varsVM, varsSnark, varsTxs, varsCommittee>>

\* VerifyingKey::from_str on the string that Display wrote.
FromStrOfDisplay ==
    /\ shown.op = "fmt"
    /\ parsed' = [op |-> "from_str", input |-> shown.out, out |-> from_str(shown.out)]
    /\ UNCHANGED <<shown, varsInfo, varsVM, varsSnark, varsTxs, varsCommittee>>

NextKey == Display \/ SerdeJson \/ Bincode \/ FromStr \/ FromStrOfDisplay

(***************************************************************************)
(* Claims on the verifying key's encodings.                                *)
(***************************************************************************)
\* C8: decoding an encoding of a verifying key gives the key back, from the
\* canonical bytes and from the bech32m string with prefix "verifier"; the
\* JSON form is that string and the bincode form is the canonical bytes after
\* an 8-byte length.
C8_KeyRoundTrip ==
    /\ shown.op # "none" => vk_read_le(shown.bytes) = Ok(shown.vk)
    /\ shown.op = "fmt" =>
          /\ shown.out.hrp = "verifier" /\ shown.out.checksum = "Bech32m"
          /\ from_base32(shown.out.data) = Ok(shown.bytes)
          /\ from_str(shown.out) = Ok(shown.vk)
    /\ (parsed.op = "from_str" /\ shown.op = "fmt" /\ parsed.input = shown.out) =>
          parsed.out = Ok(shown.vk)
    /\ shown.op = "json" =>
          /\ shown.out.json_string = fmt(shown.vk)
          /\ serde_json_from_str(shown.out) = Ok(shown.vk)
    /\ shown.op = "bincode" =>
          /\ SubSeq(shown.out, 9, Len(shown.out)) = shown.bytes
          /\ from_le(SubSeq(shown.out, 1, 8)) = Len(shown.bytes)
          /\ bincode_deserialize(shown.out) = Ok(shown.vk)

\* A key with a two-byte counter, written by Display and read back by from_str.
C8_Witness ==
    /\ shown.op = "fmt" /\ shown.vk.num_constraints = BigCount /\ shown.vk.commitment = 255
    /\ parsed.op = "from_str" /\ parsed.input = shown.out /\ parsed.out.kind = "ok"

\* C9: from_str returns an error, never a key, for a string whose prefix is not
\* "verifier", whose data is empty or whose variant is not bech32m; the prefix
\* is reported before the empty data, the empty data before the variant.
C9_FromStrRejects ==
    (parsed.op = "from_str" /\ bech32_decode(parsed.input).kind = "ok") =>
        LET key == parsed.input
        IN  /\ (key.hrp # "verifier" \/ key.data = <<>> \/ key.checksum # "Bech32m") =>
                  parsed.out.kind = "err"
            /\ key.hrp # "verifier" => parsed.out = Err("invalid prefix")
            /\ (key.hrp = "verifier" /\ key.data = <<>>) => parsed.out = Err("data field is empty")
            /\ (key.hrp = "verifier" /\ key.data # <<>> /\ key.checksum # "Bech32m") =>
                  parsed.out = Err("not bech32m encoded")

\* A string with all three faults: the prefix is the one reported.
C9_Witness ==
    /\ parsed.op = "from_str"
    /\ parsed.input.hrp = "prover" /\ parsed.input.data = <<>> /\ parsed.input.checksum = "Bech32"
    /\ parsed.out = Err("invalid prefix")

(***************************************************************************)
(* The process: programs, transitions, executions (process/execute.rs).    *)
(***************************************************************************)
\* Stand-in for N::MAX_INPUTS (16), scaled down.
MAX_INPUTS == 3

\* A function of a program, as the stack knows it: the kinds of its inputs and
\* outputs, its call instructions in the order they are defined, and its
\* finalize scope (the operands of the finalize command and the inputs of the
\* finalize logic).
Functions ==
    [ mint |->
        [program_id |-> "token.aleo", name |-> "mint",
         inputs |-> <<"public">>, outputs |-> <<"record">>,
         calls |-> <<>>, finalize |-> None],
      burn |->
        [program_id |-> "token.aleo", name |-> "burn",
         inputs |-> <<"record">>, outputs |-> <<"public">>,
         calls |-> <<>>, finalize |-> Some([operands |-> 1, inputs |-> 1])],
      pay |->
        [program_id |-> "wallet.aleo", name |-> "pay",
         inputs |-> <<"public">>, outputs |-> <<"public">>,
         calls |-> << [callee |-> "helper", is_function_call |-> FALSE],
                      [callee |-> "mint", is_function_call |-> TRUE] >>,
         finalize |-> Some([operands |-> 1, inputs |-> 1])],
      split |->
        [program_id |-> "credits.aleo", name |-> "split",
         inputs |-> <<"record">>, outputs |-> <<"record">>,
         calls |-> <<>>, finalize |-> None] ]

\* Process::get_stack, Stack::get_function.
contains_function(name) == name \in DOMAIN Functions

\* Call::is_function_call summed over the instructions of the function.
RECURSIVE count_function_calls(_)
count_function_calls(calls) ==
    IF calls = <<>> THEN 0
    ELSE (IF Head(calls).is_function_call THEN 1 ELSE 0) + count_function_calls(Tail(calls))

\* Stack::get_number_of_calls: the function and every function it calls.
RECURSIVE calls_below(_)
get_number_of_calls(name) == 1 + calls_below(Functions[name].calls)
calls_below(calls) ==
    IF calls = <<>> THEN 0
    ELSE (IF Head(calls).is_function_call THEN get_number_of_calls(Head(calls).callee) ELSE 0)
            + calls_below(Tail(calls))

\* The canonical order of circuits (of their verifying keys) in a batch.
CircuitRank == [mint |-> 1, burn |-> 2, pay |-> 3, c1 |-> 4, c2 |-> 5, split |-> 6]

\* Input::verifier_inputs: the input ID, then the tag of a record input.
input_verifier_inputs(input) == <<input.id>> \o (IF input.tag.some THEN <<input.tag.val>> ELSE <<>>)

\* Output::verifier_inputs: the output ID, then the checksum of a record output.
output_verifier_inputs(output) ==
    <<output.id>> \o (IF output.checksum.some THEN <<output.checksum.val>> ELSE <<>>)

\* inputs.iter().flat_map(|input| input.verifier_inputs())
RECURSIVE flat_inputs(_)
flat_inputs(items) ==
    IF items = <<>> THEN <<>> ELSE input_verifier_inputs(Head(items)) \o flat_inputs(Tail(items))

\* outputs.iter().flat_map(|output| output.verifier_inputs())
RECURSIVE flat_outputs(_)
flat_outputs(items) ==
    IF items = <<>> THEN <<>> ELSE output_verifier_inputs(Head(items)) \o flat_outputs(Tail(items))

\* input_ids(), output_ids()
ids_of(items) == [k \in 1 .. Len(items) |-> items[k].id]

\* Transition::to_root: the Merkle root over the inputs and outputs of the transition.
to_root(transition) ==
    <<transition.function_name, ids_of(transition.inputs), ids_of(transition.outputs),
      transition.tcm>>

\* N::hash_bhp1024 of the bits of the finalize inputs, as a field element.
RECURSIVE hash_fold(_, _)
hash_fold(values, acc) ==
    IF values = <<>> THEN acc ELSE hash_fold(Tail(values), (acc * 10 + Head(values) + 1) % 1000)
hash_bhp1024(values) == 1000 + hash_fold(values, 0)

\* The inputs and output IDs of the transitions called by the function: the
\* last num_function_calls transitions of the queue, in the order of the queue.
RECURSIVE call_inputs(_)
call_inputs(called) ==
    IF called = <<>> THEN <<>>
    ELSE flat_inputs(Head(called).inputs) \o ids_of(Head(called).outputs)
            \o call_inputs(Tail(called))

last_of(queue, n) == SubSeq(queue, Len(queue) - (IF n > Len(queue) THEN Len(queue) ELSE n) + 1, Len(queue))

\* A variant of finalize_error that compares the finalize inputs with the
\* maximum only.
finalize_error_within_limit(function, transition) ==
    IF ~function.finalize.some THEN "none"
    ELSE IF ~transition.finalize.some THEN "The transition is missing inputs for 'finalize'"
    ELSE IF Len(transition.finalize.val) > MAX_INPUTS THEN "Transition exceeds maximum inputs for finalize"
    ELSE "none"

\* Whether the transition carries what the finalize scope of the function asks for.
finalize_error(function, transition) ==
    IF ~function.finalize.some THEN "none"
    ELSE IF ~transition.finalize.some THEN "The transition is missing inputs for 'finalize'"
    ELSE IF Len(transition.finalize.val) > MAX_INPUTS THEN "Transition exceeds maximum inputs for finalize"
    ELSE IF Len(transition.finalize.val) # function.finalize.val.operands
        THEN "The number of inputs for finalize is incorrect"
    ELSE IF Len(transition.finalize.val) # function.finalize.val.inputs
        THEN "The number of inputs for finalize is incorrect"
    ELSE "none"

\* A variant of transition_inputs with inputs and outputs exchanged.
transition_inputs_outputs_first(transition, queue) ==
    LET function == Functions[transition.function_name]
    IN  <<1, transition.tpk.x, transition.tpk.y, transition.tcm>>
            \o flat_outputs(transition.outputs)
            \o call_inputs(last_of(queue, count_function_calls(function.calls)))
            \o flat_inputs(transition.inputs)
            \o (IF function.finalize.some THEN <<hash_bhp1024(transition.finalize.val)>> ELSE <<>>)

\* The verifier inputs of one transition (the [Inputs] steps of verify_execution),
\* for a transition that passed the finalize checks; queue holds the
\* transitions still to be verified.
transition_inputs(transition, queue) ==
    LET function == Functions[transition.function_name]
    IN  <<1, transition.tpk.x, transition.tpk.y, transition.tcm>>
            \o flat_inputs(transition.inputs)
            \o call_inputs(last_of(queue, count_function_calls(function.calls)))
            \o flat_outputs(transition.outputs)
            \o (IF function.finalize.some THEN <<hash_bhp1024(transition.finalize.val)>> ELSE <<>>)

\* Input::verify and Output::verify: an input or output that carries a
\* plaintext is bound by its hash to its position in the transition; records
\* and external records are not.
position_verify(item, index) == ~item.index.some \/ item.index.val = index

\* The number of field elements a function's circuit takes as public inputs.
RECURSIVE called_len(_)
kinds_len(kinds) == Len(kinds) + Cardinality({k \in 1 .. Len(kinds) : kinds[k] = "record"})
called_len(calls) ==
    IF calls = <<>> THEN 0
    ELSE (IF Head(calls).is_function_call
          THEN kinds_len(Functions[Head(calls).callee].inputs) + Len(Functions[Head(calls).callee].outputs)
          ELSE 0) + called_len(Tail(calls))
public_len(function) ==
    4 + kinds_len(function.inputs) + called_len(function.calls) + kinds_len(function.outputs)
        + (IF function.finalize.some THEN 1 ELSE 0)

\* Process::get_verifying_key: the key of the function's circuit; its
\* CircuitInfo counts the public inputs after padding to a power of two.
get_verifying_key(name) ==
    [circuit |-> name, num_public_inputs |-> next_power_of_two(public_len(Functions[name]))]

\* The Varuna verifier pads the public inputs of an instance with zeros up to
\* the padded number of public inputs of the circuit.
pad_public_inputs(inputs, num_public_inputs) ==
    IF Len(inputs) >= num_public_inputs THEN inputs
    ELSE inputs \o zeros(num_public_inputs - Len(inputs))

pad_instances(verifying_key, instances) ==
    [k \in 1 .. Len(instances) |-> pad_public_inputs(instances[k], verifying_key.num_public_inputs)]

\* A variant of sorted_groups that iterates the groups as they were inserted.
groups_as_inserted(groups) == groups

\* BTreeMap<verifying key, instances>::iter() after the groups were inserted
\* in the given order: the groups of a batch in the canonical order of their
\* circuits.
RECURSIVE sorted_groups(_)
sorted_groups(groups) ==
    IF groups = <<>> THEN <<>>
    ELSE LET first == CHOOSE k \in 1 .. Len(groups) : \A j \in 1 .. Len(groups) :
                        CircuitRank[groups[k].key.circuit] <= CircuitRank[groups[j].key.circuit]
         IN  <<groups[first]>>
                \o sorted_groups(SubSeq(groups, 1, first - 1) \o SubSeq(groups, first + 1, Len(groups)))

\* A variant of batch_statement that attests only the first instance of a circuit.
batch_statement_first_instance(groups) ==
    LET sorted == sorted_groups(groups)
    IN  [k \in 1 .. Len(sorted) |->
            [key |-> sorted[k].key,
             instances |-> pad_instances(sorted[k].key, SubSeq(sorted[k].instances, 1, 1))]]

\* What a batch proof attests: per circuit, in canonical order, the key and
\* the padded public inputs of every instance.
batch_statement(groups) ==
    LET sorted == sorted_groups(groups)
    IN  [k \in 1 .. Len(sorted) |->
            [key |-> sorted[k].key, instances |-> pad_instances(sorted[k].key, sorted[k].instances)]]

\* A variant of varuna_verify_batch that compares the keys and not the inputs.
varuna_verify_batch_keys_only(groups, batch_proof) ==
    LET made == batch_statement(groups)
    IN  /\ Len(made) = Len(batch_proof.statement)
        /\ \A k \in 1 .. Len(made) : made[k].key = batch_proof.statement[k].key

\* VarunaSNARK::verify_batch: true iff the proof attests the statement that the
\* keys and the padded inputs make.
varuna_verify_batch(groups, batch_proof) == batch_statement(groups) = batch_proof.statement

\* HashMap<Locator, (verifying key, instances)>: entry(locator).or_insert((key, vec![])).1.push(inputs)
map_push(map, name, inputs) ==
    IF name \in DOMAIN map
    THEN [map EXCEPT ![name] = [key |-> @.key, instances |-> Append(@.instances, inputs)]]
    ELSE [n \in DOMAIN map \cup {name} |->
            IF n = name THEN [key |-> get_verifying_key(name), instances |-> <<inputs>>] ELSE map[n]]

EmptyMap == [n \in {} |-> 0]

\* The loop of verify_execution over the queue, last transition first.
RECURSIVE verify_transitions(_, _, _)
verify_transitions(queue, verifier_inputs, built) ==
    IF queue = <<>> THEN [kind |-> "ok", verifier_inputs |-> verifier_inputs, built |-> built]
    ELSE LET transition == queue[Len(queue)]
             rest == SubSeq(queue, 1, Len(queue) - 1)
             num_inputs == Len(transition.inputs)
             failed(error) == [kind |-> "err", error |-> error, built |-> built]
         IN  IF transition.id # to_root(transition) THEN failed("The transition ID is incorrect")
             ELSE IF num_inputs > MAX_INPUTS THEN failed("Transition exceeded maximum number of inputs")
             ELSE IF Len(transition.outputs) > MAX_INPUTS
                THEN failed("Transition exceeded maximum number of outputs")
             ELSE IF \E k \in 1 .. num_inputs : ~position_verify(transition.inputs[k], k - 1)
                THEN failed("Failed to verify a transition input")
             ELSE IF \E k \in 1 .. Len(transition.outputs) :
                        ~position_verify(transition.outputs[k], num_inputs + k - 1)
                THEN failed("Failed to verify a transition output")
             ELSE IF ~contains_function(transition.function_name) THEN failed("Function not found")
             ELSE IF finalize_error(Functions[transition.function_name], transition) # "none"
                THEN failed(finalize_error(Functions[transition.function_name], transition))
             ELSE LET inputs == transition_inputs(transition, rest)
                  IN  verify_transitions(rest, map_push(verifier_inputs, transition.function_name, inputs),
                                         Append(built, [transition |-> transition, queue |-> rest,
                                                        inputs |-> inputs]))

RECURSIVE sum_instances(_, _)
sum_instances(map, names) ==
    IF names = {} THEN 0
    ELSE LET n == CHOOSE x \in names : TRUE
         IN  Len(map[n].instances) + sum_instances(map, names \ {n})

\* Trace::verify_execution_proof: the global state root must not be zero, the
\* proof must be there, and the batch must verify.  The verifier collects the
\* Vec it is given into a BTreeMap.
verify_execution_proof(verifier_inputs, execution) ==
    IF execution.global_state_root = 0 THEN "the global state root is zero"
    ELSE IF ~execution.proof.some THEN "Expected the execution to contain a proof"
    ELSE IF ~varuna_verify_batch(verifier_inputs, execution.proof.val)
        THEN "Execution is invalid"
    ELSE "none"

\* HashMap::values().cloned().collect(): the groups in an order of the hash map's choosing.
RECURSIVE values_in_order(_, _)
values_in_order(map, ascending) ==
    IF DOMAIN map = {} THEN <<>>
    ELSE LET n == CHOOSE x \in DOMAIN map : \A y \in DOMAIN map :
                        IF ascending THEN CircuitRank[x] <= CircuitRank[y] ELSE CircuitRank[x] >= CircuitRank[y]
         IN  <<map[n]>> \o values_in_order([m \in DOMAIN map \ {n} |-> map[m]], ascending)

\* A variant of verify_execution that does not compare the number of
\* transitions with the number of calls of the main function.
verify_execution_of_any_length(execution, ascending) ==
    LET transitions == execution.transitions
        loop == verify_transitions(transitions, EmptyMap, <<>>)
        error == verify_execution_proof(values_in_order(loop.verifier_inputs, ascending), execution)
    IN  IF transitions = <<>>
        THEN [kind |-> "err", error |-> "There are no transitions in the execution", built |-> <<>>]
        ELSE IF loop.kind # "ok" THEN loop
        ELSE IF error # "none" THEN [kind |-> "err", error |-> error, built |-> loop.built]
        ELSE [kind |-> "ok", built |-> loop.built]

\* Process::verify_execution.  The result carries, for every transition that
\* reached the end of the loop body, the verifier inputs built for it.
verify_execution(execution, ascending) ==
    LET transitions == execution.transitions
        failed(error) == [kind |-> "err", error |-> error, built |-> <<>>]
    IN  IF transitions = <<>> THEN failed("There are no transitions in the execution")
        ELSE IF ~contains_function(transitions[Len(transitions)].function_name)
            THEN failed("Function not found")
        ELSE IF get_number_of_calls(transitions[Len(transitions)].function_name) # Len(transitions)
            THEN failed("The number of transitions in the execution is incorrect")
        ELSE LET loop == verify_transitions(transitions, EmptyMap, <<>>)
             IN  IF loop.kind # "ok" THEN loop
                 ELSE IF sum_instances(loop.verifier_inputs, DOMAIN loop.verifier_inputs) # Len(transitions)
                    THEN [kind |-> "err", error |-> "The number of verifier instances is incorrect",
                          built |-> loop.built]
                 ELSE LET error == verify_execution_proof(values_in_order(loop.verifier_inputs, ascending),
                                                          execution)
                      IN  IF error # "none" THEN [kind |-> "err", error |-> error, built |-> loop.built]
                          ELSE [kind |-> "ok", built |-> loop.built]

\* Transition::new: the transition with its ID computed from its contents.
new_transition(function_name, inputs, outputs, tpk, tcm, finalize) ==
    LET body == [function_name |-> function_name, inputs |-> inputs, outputs |-> outputs,
                 tpk |-> tpk, tcm |-> tcm, finalize |-> finalize, id |-> <<>>]
    IN  [body EXCEPT !.id = to_root(body)]

\* Trace::prove_execution: the proof attests, per circuit in canonical order,
\* the public variables of every transition's circuit, which the circuit lays
\* out as verify_execution rebuilds them, padded to the circuit's size.
prove_execution(transitions) ==
    LET loop == verify_transitions(transitions, EmptyMap, <<>>)
    IN  Some([statement |-> batch_statement(values_in_order(loop.verifier_inputs, TRUE))])

\* Execution::from
execution_from(transitions, global_state_root, execution_proof) ==
    [transitions |-> transitions, global_state_root |-> global_state_root, proof |-> execution_proof]

StateRoot == 77

\* The transitions of honest executions of the three functions.
mint_transition ==
    new_transition("mint", <<[id |-> 11, tag |-> None, index |-> Some(0)]>>,
                   <<[id |-> 21, checksum |-> Some(31), nonce |-> Some(41), index |-> None]>>,
                   [x |-> 2, y |-> 3], 5, None)

burn_transition ==
    new_transition("burn", <<[id |-> 12, tag |-> Some(42), index |-> None]>>,
                   <<[id |-> 22, checksum |-> None, nonce |-> None, index |-> Some(1)]>>,
                   [x |-> 6, y |-> 7], 8, Some(<<9>>))

pay_transition ==
    new_transition("pay", <<[id |-> 13, tag |-> None, index |-> Some(0)]>>,
                   <<[id |-> 23, checksum |-> None, nonce |-> None, index |-> Some(1)]>>,
                   [x |-> 14, y |-> 15], 16, Some(<<4>>))

\* Process::execute followed by Trace::prove_execution, for each function.
HonestExecutions ==
    { execution_from(transitions, StateRoot, prove_execution(transitions)) :
        transitions \in { <<mint_transition>>, <<burn_transition>>, <<mint_transition, pay_transition>> } }

\* What may be done to an execution after it was proved.
Mutations ==
    { "none", "append_output", "append_output_keep_id", "tamper_input", "reorder_input",
      "drop_finalize", "empty_finalize", "more_finalize", "long_finalize",
      "drop_transition", "drop_proof", "zero_root", "empty" }

main_of(execution) == execution.transitions[Len(execution.transitions)]

with_main(execution, transition) ==
    [execution EXCEPT !.transitions = [@ EXCEPT ![Len(@)] = transition]]

\* Output::ExternalRecord(Field::zero())
added_output == [id |-> 0, checksum |-> None, nonce |-> None, index |-> None]

mutate(execution, mutation) ==
    LET main == main_of(execution)
        renewed(inputs, outputs, finalize) ==
            new_transition(main.function_name, inputs, outputs, main.tpk, main.tcm, finalize)
    IN  CASE mutation = "append_output" ->
                with_main(execution, renewed(main.inputs, Append(main.outputs, added_output), main.finalize))
          [] mutation = "append_output_keep_id" ->
                with_main(execution, [main EXCEPT !.outputs = Append(@, added_output)])
          [] mutation = "tamper_input" ->
                with_main(execution, renewed([main.inputs EXCEPT ![1].id = @ + 100], main.outputs, main.finalize))
          [] mutation = "reorder_input" ->
                with_main(execution, renewed([main.inputs EXCEPT ![1].index = Some(1)], main.outputs,
                                             main.finalize))
          [] mutation = "drop_finalize" ->
                with_main(execution, renewed(main.inputs, main.outputs, None))
          [] mutation = "empty_finalize" ->
                with_main(execution, renewed(main.inputs, main.outputs, Some(<<>>)))
          [] mutation = "more_finalize" ->
                with_main(execution, renewed(main.inputs, main.outputs,
                                             Some((IF main.finalize.some THEN main.finalize.val ELSE <<>>)
                                                    \o <<9>>)))
          [] mutation = "long_finalize" ->
                with_main(execution, renewed(main.inputs, main.outputs,
                                             Some([k \in 1 .. MAX_INPUTS + 1 |-> 9])))
          [] mutation = "drop_transition" ->
                [execution EXCEPT !.transitions = Tail(@)]
          [] mutation = "drop_proof" -> [execution EXCEPT !.proof = None]
          [] mutation = "zero_root" -> [execution EXCEPT !.global_state_root = 0]
          [] mutation = "empty" -> [execution EXCEPT !.transitions = <<>>]
          [] OTHER -> execution

MAX_FEE == 50
N_EDITION == 0
MaxCache == 1

Payer == "aleo1payer"

\* Execution::to_execution_id: the Merkle root over the transition IDs.
to_execution_id(execution) == <<"execution", ids_of(execution.transitions)>>

\* execution_cost: the cost in microcredits of the execution.
execution_cost(execution) == Len(execution.transitions)

\* Fee: authorize_fee_public and execute_fee_authorization for the given base
\* amount and deployment or execution ID.
new_fee(base_amount, priority_amount, deployment_or_execution_id, global_state_root, payer) ==
    [transition_id |-> <<"fee", deployment_or_execution_id, base_amount>>,
     base_amount |-> base_amount, priority_amount |-> priority_amount,
     authorized_id |-> deployment_or_execution_id, global_state_root |-> global_state_root,
     is_fee_public |-> TRUE, payer |-> payer]

fee_amount(fee) == fee.base_amount + fee.priority_amount

\* A verification of the fee that takes a fee authorized for any ID.
verify_fee_of_any_id(fee, deployment_or_execution_id) == "none"

\* Process::verify_fee: the fee proof binds the ID the fee was authorized for.
verify_fee(fee, deployment_or_execution_id) ==
    IF fee.authorized_id = deployment_or_execution_id THEN "none" ELSE "Fee is invalid"

\* Transaction::to_root: the Merkle root over the execution or deployment and the fee.
transaction_root(type, body_id, fee) ==
    <<type, body_id, IF fee.some THEN fee.val.transition_id ELSE <<>> >>

\* Transaction::from_execution
from_execution(execution, fee) ==
    [type |-> "execute", id |-> transaction_root("execute", to_execution_id(execution), fee),
     execution |-> execution, fee |-> fee]

\* Transaction::from_fee
from_fee(fee) ==
    [type |-> "fee", id |-> transaction_root("fee", <<>>, Some(fee)), fee |-> Some(fee)]

\* Transaction::from_deployment
from_deployment(owner_verifies, deployment, fee) ==
    [type |-> "deploy", id |-> transaction_root("deploy", <<"deployment", deployment.program_id>>, Some(fee)),
     owner_verifies |-> owner_verifies, deployment |-> deployment, fee |-> Some(fee)]

to_deployment_id(deployment) == <<"deployment", deployment.program_id>>

\* has_duplicates
has_duplicates(items) == \E j, k \in 1 .. Len(items) : j # k /\ items[j] = items[k]

\* The transitions of a transaction: those of its execution, then that of its fee.
transitions_of(transaction) ==
    (IF transaction.type = "execute" THEN transaction.execution.transitions ELSE <<>>)

RECURSIVE all_inputs(_)
all_inputs(transitions) ==
    IF transitions = <<>> THEN <<>> ELSE Head(transitions).inputs \o all_inputs(Tail(transitions))

RECURSIVE all_outputs(_)
all_outputs(transitions) ==
    IF transitions = <<>> THEN <<>> ELSE Head(transitions).outputs \o all_outputs(Tail(transitions))

RECURSIVE tags_of(_)
tags_of(inputs) ==
    IF inputs = <<>> THEN <<>>
    ELSE (IF Head(inputs).tag.some THEN <<Head(inputs).tag.val>> ELSE <<>>) \o tags_of(Tail(inputs))

transition_ids(transaction) ==
    ids_of(transitions_of(transaction))
        \o (IF transaction.fee.some THEN <<transaction.fee.val.transition_id>> ELSE <<>>)
input_ids(transaction) == ids_of(all_inputs(transitions_of(transaction)))
tags(transaction) == tags_of(all_inputs(transitions_of(transaction)))
output_ids(transaction) == ids_of(all_outputs(transitions_of(transaction)))

\* The serial numbers of the record inputs, which are their IDs.
RECURSIVE serial_numbers_of(_)
serial_numbers_of(inputs) ==
    IF inputs = <<>> THEN <<>>
    ELSE (IF Head(inputs).tag.some THEN <<Head(inputs).id>> ELSE <<>>) \o serial_numbers_of(Tail(inputs))

\* The commitments of the record outputs, which are their IDs.
RECURSIVE commitments_of(_)
commitments_of(outputs) ==
    IF outputs = <<>> THEN <<>>
    ELSE (IF Head(outputs).checksum.some THEN <<Head(outputs).id>> ELSE <<>>) \o commitments_of(Tail(outputs))

\* The nonces of the record outputs.
RECURSIVE nonces_of(_)
nonces_of(outputs) ==
    IF outputs = <<>> THEN <<>>
    ELSE (IF Head(outputs).nonce.some THEN <<Head(outputs).nonce.val>> ELSE <<>>) \o nonces_of(Tail(outputs))

serial_numbers(transaction) == serial_numbers_of(all_inputs(transitions_of(transaction)))
commitments(transaction) == commitments_of(all_outputs(transitions_of(transaction)))
nonces(transaction) == nonces_of(all_outputs(transitions_of(transaction)))
transition_public_keys(transaction) ==
    [k \in 1 .. Len(transitions_of(transaction)) |-> transitions_of(transaction)[k].tpk]
transition_commitments(transaction) ==
    [k \in 1 .. Len(transitions_of(transaction)) |-> transitions_of(transaction)[k].tcm]

\* ensure_is_unique! without its look into the ledger.
ensure_is_unique_within(name, stored, items) ==
    IF has_duplicates(items) THEN "Found a duplicate " \o name \o " in the transaction"
    ELSE "none"

\* ensure_is_unique!: no duplicate in the transaction, none already in the ledger.
ensure_is_unique(name, stored, items) ==
    IF has_duplicates(items) THEN "Found a duplicate " \o name \o " in the transaction"
    ELSE IF \E k \in 1 .. Len(items) : items[k] \in stored
        THEN "The " \o name \o " already exists in the ledger"
    ELSE "none"

\* The first error of a sequence of checks, "none" if there is none.
RECURSIVE first_error(_)
first_error(errors) ==
    IF errors = <<>> THEN "none"
    ELSE IF Head(errors) # "none" THEN Head(errors) ELSE first_error(Tail(errors))

\* Transaction::contains_split
contains_split(transaction) ==
    \E k \in 1 .. Len(transitions_of(transaction)) : transitions_of(transaction)[k].function_name = "split"

\* The programs the process holds.
contains_program(program_id) == \E name \in DOMAIN Functions : Functions[name].program_id = program_id

\* Restrictions::contains_restricted_transitions
contains_restricted_transitions(execution) ==
    \E k \in 1 .. Len(execution.transitions) : execution.transitions[k].function_name \in ledger.restricted

\* VM::check_fee_internal
check_fee_internal(fee, deployment_or_execution_id) ==
    IF fee_amount(fee) > MAX_FEE THEN "Fee verification failed: fee exceeds the maximum limit"
    ELSE LET verification == verify_fee(fee, deployment_or_execution_id)
         IN  IF fee.is_fee_public /\ ~fee.payer.some
                THEN "Fee verification failed: fee is public, but the payer is missing"
             ELSE IF fee.is_fee_public /\ fee.payer.val \notin DOMAIN ledger.balances
                THEN "Fee verification failed: fee is public, but the payer account balance is missing"
             ELSE IF fee.is_fee_public /\ ledger.balances[fee.payer.val] < fee_amount(fee)
                THEN "Fee verification failed: insufficient balance"
             ELSE IF verification # "none" THEN "Fee verification failed: " \o verification
             ELSE IF fee.global_state_root \notin ledger.state_roots
                THEN "Fee verification failed: global state root not found"
             ELSE "none"

\* A fee that is required unless the execution contains a split.
is_fee_required_without_split(transaction) == ~contains_split(transaction)

\* let is_fee_required = !(execution.len() == 1 && transaction.contains_split());
is_fee_required(transaction) ==
    ~(Len(transaction.execution.transitions) = 1 /\ contains_split(transaction))

\* check_fee without its checks of the rejected ID of a deployment and of an
\* execution.
check_fee_of_any_rejected_id(transaction, rejected_id) ==
    CASE transaction.type = "deploy" ->
            IF transaction.fee.val.base_amount < transaction.deployment.cost
                THEN "Transaction has an insufficient base fee (deployment)"
            ELSE check_fee_internal(transaction.fee.val, to_deployment_id(transaction.deployment))
      [] transaction.type = "execute" ->
            IF transaction.fee.some
                THEN IF is_fee_required(transaction)
                            /\ transaction.fee.val.base_amount < execution_cost(transaction.execution)
                        THEN "Transaction has an insufficient base fee (execution)"
                     ELSE IF ~is_fee_required(transaction) /\ transaction.fee.val.base_amount # 0
                        THEN "Transaction has a non-zero base fee (execution)"
                     ELSE check_fee_internal(transaction.fee.val, to_execution_id(transaction.execution))
            ELSE IF is_fee_required(transaction) THEN "Transaction is missing a fee (execution)"
            ELSE "none"
      [] OTHER ->
            IF rejected_id.some THEN check_fee_internal(transaction.fee.val, rejected_id.val)
            ELSE "Transaction is missing a rejected ID (fee)"

\* VM::check_fee
check_fee(transaction, rejected_id) ==
    CASE transaction.type = "deploy" ->
            IF rejected_id.some THEN "Transaction should not have a rejected ID (deployment)"
            ELSE IF transaction.fee.val.base_amount < transaction.deployment.cost
                THEN "Transaction has an insufficient base fee (deployment)"
            ELSE check_fee_internal(transaction.fee.val, to_deployment_id(transaction.deployment))
      [] transaction.type = "execute" ->
            IF rejected_id.some THEN "Transaction should not have a rejected ID (execution)"
            ELSE IF transaction.fee.some
                THEN IF is_fee_required(transaction)
                            /\ transaction.fee.val.base_amount < execution_cost(transaction.execution)
                        THEN "Transaction has an insufficient base fee (execution)"
                     ELSE IF ~is_fee_required(transaction) /\ transaction.fee.val.base_amount # 0
                        THEN "Transaction has a non-zero base fee (execution)"
                     ELSE check_fee_internal(transaction.fee.val, to_execution_id(transaction.execution))
            ELSE IF is_fee_required(transaction) THEN "Transaction is missing a fee (execution)"
            ELSE "none"
      [] OTHER ->
            IF rejected_id.some THEN check_fee_internal(transaction.fee.val, rejected_id.val)
            ELSE "Transaction is missing a rejected ID (fee)"

\* Process::verify_deployment: whether the deployment's certificates verify.
verify_deployment(deployment) == IF deployment.verifies THEN "none" ELSE "Deployment is invalid"

\* VM::check_deployment_internal
check_deployment_internal(deployment) ==
    LET result == verify_deployment(deployment)
    IN  IF result = "none" THEN "none" ELSE "Deployment verification failed - " \o result

\* check_execution_internal that checks nothing of an execution that was
\* verified before.
check_execution_internal_trusting_cache(execution, is_partially_verified, ascending) ==
    IF is_partially_verified THEN "none"
    ELSE IF contains_restricted_transitions(execution)
    THEN "Execution verification failed - restricted transition found"
    ELSE LET verification == verify_execution(execution, ascending)
         IN  IF verification.kind # "ok" THEN "Execution verification failed - " \o verification.error
             ELSE IF execution.global_state_root \notin ledger.state_roots
                THEN "Execution verification failed - global state root does not exist (yet)"
             ELSE "none"

\* VM::check_execution_internal
check_execution_internal(execution, is_partially_verified, ascending) ==
    IF contains_restricted_transitions(execution)
    THEN "Execution verification failed - restricted transition found"
    ELSE LET verification == IF is_partially_verified THEN [kind |-> "ok"]
                             ELSE verify_execution(execution, ascending)
         IN  IF verification.kind # "ok" THEN "Execution verification failed - " \o verification.error
             ELSE IF execution.global_state_root \notin ledger.state_roots
                THEN "Execution verification failed - global state root does not exist (yet)"
             ELSE "none"

\* LruCache::peek and LruCache::push
cache_peek(id) == \E k \in 1 .. Len(cache) : cache[k] = id
cache_push(id) == IF Len(cache) >= MaxCache THEN Append(Tail(cache), id) ELSE Append(cache, id)

\* The checks of check_transaction that come before the fee.
check_unique(transaction) ==
    IF transaction.id \in ledger.transaction_ids THEN "Transaction already exists in the ledger"
    ELSE IF transaction.id # transaction_root(transaction.type,
                    CASE transaction.type = "execute" -> to_execution_id(transaction.execution)
                      [] transaction.type = "deploy" -> to_deployment_id(transaction.deployment)
                      [] OTHER -> <<>>,
                    transaction.fee)
        THEN "Incorrect transaction ID"
    ELSE first_error(<<
            ensure_is_unique("transition ID", ledger.transition_ids, transition_ids(transaction)),
            ensure_is_unique("input ID", ledger.input_ids, input_ids(transaction)),
            ensure_is_unique("serial number", ledger.serial_numbers, serial_numbers(transaction)),
            ensure_is_unique("tag", ledger.tags, tags(transaction)),
            ensure_is_unique("output ID", ledger.output_ids, output_ids(transaction)),
            ensure_is_unique("commitment", ledger.commitments, commitments(transaction)),
            ensure_is_unique("nonce", ledger.nonces, nonces(transaction)),
            ensure_is_unique("transition public key", ledger.tpks, transition_public_keys(transaction)),
            ensure_is_unique("transition commitment", ledger.tcms, transition_commitments(transaction)) >>)

\* What running a verification gives: the panic if it halts, else its result.
run(error, halts) ==
    IF halts THEN Panic("halted") ELSE IF error = "none" THEN Ok(<<>>) ELSE Err(error)

\* The closure runs with nothing around it: a panic unwinds into the caller.
run_unguarded(outcome) == Ok(outcome)

\* try_vm_runtime!: runs the closure and catches its panic; Ok of what the
\* closure returned, Err if it panicked.
try_vm_runtime(outcome) ==
    IF outcome.kind = "panic" THEN Err("panic") ELSE Ok(outcome)

\* match try_vm_runtime!(..) { Ok(result) => result?, Err(_) => bail!(..) }
safely(outcome) ==
    LET caught == try_vm_runtime(outcome)
    IN  IF caught.kind = "ok" THEN caught.val
        ELSE Err("VM safely halted transaction during verification")

\* The match of check_transaction on the type of the transaction.
check_body(transaction, is_partially_verified, ascending, halts) ==
    CASE transaction.type = "deploy" ->
            IF ~transaction.owner_verifies THEN Err("Invalid owner signature for deployment transaction")
            ELSE IF transaction.deployment.edition # N_EDITION
                THEN Err("Invalid deployment transaction - expected edition")
            ELSE IF transaction.deployment.program_id \in ledger.program_ids
                THEN Err("Program ID is already deployed")
            ELSE IF contains_program(transaction.deployment.program_id) THEN Err("Program ID already exists")
            ELSE IF ~is_partially_verified
                THEN safely(run(check_deployment_internal(transaction.deployment), halts))
            ELSE Ok(<<>>)
      [] transaction.type = "execute" ->
            IF to_execution_id(transaction.execution) \in ledger.rejected_ids
            THEN Err("Transaction contains a previously rejected execution")
            ELSE safely(run(check_execution_internal(transaction.execution, is_partially_verified, ascending),
                            halts))
      [] OTHER -> Ok(<<>>)

\* check_transaction with a cache that takes the ID of every transaction
\* that passed, a fee transaction included.
check_transaction_caching_fees(transaction, rejected_id, ascending, halts) ==
    IF test_skip_tx_checks THEN [result |-> Ok(<<>>), cache |-> cache]
    ELSE LET is_partially_verified == cache_peek(transaction.id)
             unique == check_unique(transaction)
             fee == check_fee(transaction, rejected_id)
             body == IF unique # "none" THEN Err(unique)
                     ELSE IF fee # "none" THEN Err(fee)
                     ELSE check_body(transaction, is_partially_verified, ascending, halts)
         IN  IF body.kind # "ok" THEN [result |-> body, cache |-> cache]
             ELSE [result |-> Ok(<<>>),
                   cache |-> IF ~is_partially_verified THEN cache_push(transaction.id) ELSE cache]

\* VM::check_transaction: its result and the cache it leaves.  With the
\* feature test_skip_tx_checks every check is compiled out.  Without it the
\* checks read rejected_id, buffer, id, owner, deployment, execution and rng,
\* which the source binds with a leading underscore; they are taken here as
\* the bindings of those names.
check_transaction(transaction, rejected_id, ascending, halts) ==
    IF test_skip_tx_checks THEN [result |-> Ok(<<>>), cache |-> cache]
    ELSE LET is_partially_verified == cache_peek(transaction.id)
             unique == check_unique(transaction)
             fee == check_fee(transaction, rejected_id)
             body == IF unique # "none" THEN Err(unique)
                     ELSE IF fee # "none" THEN Err(fee)
                     ELSE check_body(transaction, is_partially_verified, ascending, halts)
         IN  IF body.kind # "ok" THEN [result |-> body, cache |-> cache]
             ELSE [result |-> Ok(<<>>),
                   cache |-> IF transaction.type # "fee" /\ ~is_partially_verified
                             THEN cache_push(transaction.id) ELSE cache]

----------------------------------------------------------------------------
\* The Varuna SNARK as its tests drive it: universal setup, extension of the
\* SRS, circuit setup, proving and verifying of batches.

MaxPowers == 5
SetupPowers == 3
MaxInstances == 2
FieldModulus == 13

HidingModes == {"VarunaHidingMode", "VarunaNonHidingMode"}

\* The power of the SRS at an index: fixed by the setup, whatever the table holds.
RECURSIVE srs_power(_)
srs_power(i) == IF i = 0 THEN 1 ELSE (2 * srs_power(i - 1)) % FieldModulus

\* universal_setup(max_degree): the table of the first powers.
universal_setup(degree) == [i \in 1 .. degree |-> srs_power(i - 1)]

\* download_powers_for(0 .. upto): appends the powers the table lacks.
download_powers_for(table, upto) ==
    IF upto <= Len(table) THEN table
    ELSE table \o [i \in 1 .. upto - Len(table) |-> srs_power(Len(table) + i - 1)]

\* The powers of a download, published: the table gets those it lacks, all at once.
publish_powers(table, d) ==
    IF Len(table) >= d.from + Len(d.fetched) THEN table
    ELSE table \o SubSeq(d.fetched, Len(table) - d.from + 1, Len(d.fetched))

\* A variant of read_table that reads on into the powers a download has fetched so far.
read_table_with_fetched(table, in_flight) ==
    IF in_flight.some THEN publish_powers(table, in_flight.val) ELSE table

\* The table that a reader of the SRS sees while a download may be in flight:
\* the powers published so far.
read_table(table, in_flight) == table

\* TestCircuit::gen_rand: the circuits of the tests, by the coefficients of
\* their index polynomial and their padded number of public inputs.
TestCircuits ==
    [c1 |-> [id |-> "c1", coefficients |-> <<1, 2>>, num_public_inputs |-> 4,
             index_info |-> [num_public_inputs |-> 4, num_variables |-> 2, num_constraints |-> 2,
                             num_non_zero_a |-> 2, num_non_zero_b |-> 2, num_non_zero_c |-> 2]],
     c2 |-> [id |-> "c2", coefficients |-> <<3, 0, 1, 1>>, num_public_inputs |-> 4,
             index_info |-> [num_public_inputs |-> 4, num_variables |-> 2, num_constraints |-> 2,
                             num_non_zero_a |-> 3, num_non_zero_b |-> 2, num_non_zero_c |-> 2]]]

\* The public inputs gen_rand returns with a circuit.
InputVectors == {<<1, 2>>, <<2, 2>>, <<0, 0>>}

Seeds == {0, 1}

\* The public inputs gen_rand returns for the instances of a batch, by the seed of the rng.
gen_rand(seed, m) == [j \in 1 .. m |-> IF (seed + j) % 2 = 0 THEN <<1, 2>> ELSE <<2, 2>>]

\* A commitment to a polynomial under the powers of the table.
RECURSIVE commit(_, _)
commit(coefficients, table) ==
    IF coefficients = <<>> THEN 0
    ELSE (Head(coefficients) * Head(table) + commit(Tail(coefficients), Tail(table))) % FieldModulus

\* A variant of circuit_setup whose proving key holds every power of the table.
circuit_setup_whole_table(table, circuit) ==
    LET powers == download_powers_for(table, Len(circuit.coefficients))
        vk == [circuit |-> circuit.id, num_public_inputs |-> circuit.num_public_inputs,
               commitment |-> commit(circuit.coefficients, powers)]
    IN  [srs |-> powers, pk |-> [vk |-> vk, committer_key |-> powers], vk |-> vk]

\* circuit_setup: the SRS is extended to the powers the circuit needs, and the
\* keys are made from those powers.
circuit_setup(table, circuit) ==
    LET powers == download_powers_for(table, Len(circuit.coefficients))
        vk == [circuit |-> circuit.id, num_public_inputs |-> circuit.num_public_inputs,
               commitment |-> commit(circuit.coefficients, powers)]
    IN  [srs |-> powers,
         pk |-> [vk |-> vk, committer_key |-> SubSeq(powers, 1, Len(circuit.coefficients))],
         vk |-> vk]

\* batch_circuit_setup: the table after the setup of every circuit of the batch.
RECURSIVE batch_srs(_, _)
batch_srs(table, ids) ==
    IF ids = {} THEN table
    ELSE LET c == CHOOSE x \in ids : TRUE
         IN  batch_srs(circuit_setup(table, TestCircuits[c]).srs, ids \ {c})

\* universal_srs.to_universal_verifier(): the one element of the SRS that the
\* check of an opening needs, not the table.
to_universal_verifier(table) == [beta_h |-> table[2]]

\* index_pk.circuit.max_domain_size(): the largest of the domains of the circuit.
max_domain_size(circuit) ==
    LET i == circuit.index_info
    IN  MaxOfSeq(<< compute_size_of_domain(i.num_constraints).val, compute_size_of_domain(i.num_variables).val,
                    compute_size_of_domain(i.num_non_zero_a).val, compute_size_of_domain(i.num_non_zero_b).val,
                    compute_size_of_domain(i.num_non_zero_c).val >>)

\* What the tests read from the proving key of a circuit before they make a
\* universal prover: index_pk.circuit.max_degree(), .max_domain_size() and
\* .index_info.get_degree_bounds(), per circuit and per mode.
IndexedCircuits ==
    [c \in DOMAIN TestCircuits |->
        [is_zk \in BOOLEAN |->
            [max_degree |-> max_degree(TestCircuits[c].index_info, is_zk).val,
             max_domain_size |-> max_domain_size(TestCircuits[c]),
             coefficient_support |-> get_degree_bounds(TestCircuits[c].index_info, FALSE).val]]]

\* The elements of a sequence, as a set.
elements(s) == {s[k] : k \in 1 .. Len(s)}

\* A variant of to_universal_prover that takes the powers the table holds and
\* fails when they are too few.
to_universal_prover_of_held_powers(table, degree, domain_size, coefficient_support, hiding_bound) ==
    [srs |-> table,
     kind |-> IF degree + 1 > Len(table) THEN "err" ELSE "ok",
     key |-> [max_degree |-> degree, max_domain_size |-> domain_size,
              committer_key |-> SubSeq(table, 1, IF degree + 1 > Len(table) THEN Len(table) ELSE degree + 1),
              enforced_degree_bounds |-> coefficient_support,
              hiding_bound |-> hiding_bound]]

\* universal_srs.to_universal_prover(max_degree, max_domain_size,
\* Some(&coefficient_support), None, hiding_bound): the committer key of the
\* powers up to max_degree with the degree bounds it can enforce; the SRS
\* gets the powers it lacks.
to_universal_prover(table, degree, domain_size, coefficient_support, hiding_bound) ==
    LET powers == download_powers_for(table, degree + 1)
    IN  [srs |-> powers,
         kind |-> "ok",
         key |-> [max_degree |-> degree, max_domain_size |-> domain_size,
                  committer_key |-> SubSeq(powers, 1, degree + 1),
                  enforced_degree_bounds |-> coefficient_support,
                  hiding_bound |-> hiding_bound]]

\* The universal prover the tests make for one proving key.
universal_prover_for(table, c, is_zk) ==
    to_universal_prover(table, IndexedCircuits[c][is_zk].max_degree, IndexedCircuits[c][is_zk].max_domain_size,
                        elements(IndexedCircuits[c][is_zk].coefficient_support), zk_bound(is_zk))

\* A variant of batch_coefficient_support: the degree bounds that every circuit has.
batch_coefficient_support_common(ids, is_zk) ==
    {b \in UNION {elements(IndexedCircuits[c][is_zk].coefficient_support) : c \in ids} :
        \A c \in ids : b \in elements(IndexedCircuits[c][is_zk].coefficient_support)}

\* The coefficient support the tests collect over the keys of a batch: every
\* degree bound of every circuit.
batch_coefficient_support(ids, is_zk) ==
    UNION {elements(IndexedCircuits[c][is_zk].coefficient_support) : c \in ids}

\* The universal prover the tests make for a batch: from the largest
\* max_degree, the largest max_domain_size and the collected coefficient support.
universal_prover_for_batch(table, ids, is_zk) ==
    LET degrees == {IndexedCircuits[c][is_zk].max_degree : c \in ids}
        domain_sizes == {IndexedCircuits[c][is_zk].max_domain_size : c \in ids}
    IN  to_universal_prover(table, CHOOSE d \in degrees : \A e \in degrees : d >= e,
                            CHOOSE d \in domain_sizes : \A e \in domain_sizes : d >= e,
                            batch_coefficient_support(ids, is_zk), zk_bound(is_zk))

\* Whether a universal prover has what the proving key of a circuit needs.
serves(universal_prover, c, is_zk) ==
    /\ universal_prover.max_degree >= IndexedCircuits[c][is_zk].max_degree
    /\ universal_prover.max_domain_size >= IndexedCircuits[c][is_zk].max_domain_size
    /\ elements(IndexedCircuits[c][is_zk].coefficient_support) \subseteq universal_prover.enforced_degree_bounds

\* The value of a polynomial at a point of the field.
RECURSIVE evaluate(_, _)
evaluate(coefficients, z) ==
    IF coefficients = <<>> THEN 0
    ELSE (Head(coefficients) + z * evaluate(Tail(coefficients), z)) % FieldModulus

\* The quotient of p(x) - p(z) by x - z.
RECURSIVE quotient(_, _)
quotient(coefficients, z) ==
    IF Len(coefficients) <= 1 THEN <<>>
    ELSE <<evaluate(Tail(coefficients), z)>> \o quotient(Tail(coefficients), z)

\* The challenge the sponge gives after absorbing a verifying key.
vk_challenge(vk) == (vk.commitment + 1) % FieldModulus

\* A variant of prove_vk that opens the index polynomial at zero, whatever the challenge.
prove_vk_at_zero(universal_prover, vk, pk) ==
    LET p == TestCircuits[pk.vk.circuit].coefficients
    IN  Ok([evaluation |-> evaluate(p, 0),
            witness |-> commit(quotient(p, 0), universal_prover.committer_key)])

\* prove_vk: the certificate opens the index polynomial of the circuit of the
\* proving key at the challenge of the verifying key.
prove_vk(universal_prover, vk, pk) ==
    LET p == TestCircuits[pk.vk.circuit].coefficients
        z == vk_challenge(vk)
    IN  Ok([evaluation |-> evaluate(p, z),
            witness |-> commit(quotient(p, z), universal_prover.committer_key)])

\* verify_vk: the verifier evaluates the index polynomial of the circuit at
\* the challenge itself and checks the opening of the commitment of the key.
verify_vk(universal_verifier, circuit, vk, certificate) ==
    LET z == vk_challenge(vk)
        v == evaluate(circuit.coefficients, z)
    IN  Ok(/\ certificate.evaluation = v
           /\ (vk.commitment + FieldModulus - v) % FieldModulus
                = (certificate.witness * (universal_verifier.beta_h + FieldModulus - z)) % FieldModulus)

\* prove_batch: the proof attests the keys and the padded public inputs of
\* every instance, per circuit in canonical order; in hiding mode it is masked.
\* It fails when the universal prover lacks what a proving key needs.
prove_batch(universal_prover, pks_to_constraints, mode, rng) ==
    IF \E k \in 1 .. Len(pks_to_constraints) :
            ~serves(universal_prover, pks_to_constraints[k].key.vk.circuit, mode = "VarunaHidingMode")
    THEN Err("ProverError")
    ELSE Ok([mode |-> mode,
             masking |-> IF mode = "VarunaHidingMode" THEN rng ELSE 0,
             statement |-> batch_statement([k \in 1 .. Len(pks_to_constraints) |->
                                                [key |-> pks_to_constraints[k].key.vk,
                                                 instances |-> pks_to_constraints[k].instances]])])

\* A variant of verify_batch that accepts a proof only as long as the SRS
\* holds no more powers than the universal setup gave it.
verify_batch_by_table(vks_to_inputs, batch_proof) ==
    Ok(varuna_verify_batch(vks_to_inputs, batch_proof) /\ Len(srs) = SetupPowers)

\* verify_batch: Ok(true) or Ok(false).
verify_batch(vks_to_inputs, batch_proof) == Ok(varuna_verify_batch(vks_to_inputs, batch_proof))

InitSnark ==
    /\ srs = universal_setup(SetupPowers)
    /\ first_keys = [c \in DOMAIN TestCircuits |-> None]
    /\ proof = None
    /\ download = None
    /\ kept = None
    /\ snark_ret = [call |-> "none"]

\* universal_srs.download_powers_for(0..upto)
DownloadPowersFor ==
    \E upto \in 1 .. MaxPowers :
        /\ srs' = download_powers_for(srs, upto)
        /\ snark_ret' = [call |-> "download_powers_for"]
        /\ UNCHANGED <<first_keys, proof, download, kept, varsInfo, varsKey, varsVM, varsTxs, varsCommittee>>

\* download_powers_for(0..upto) by another thread, step by step: it begins,
BeginDownload ==
    /\ ~download.some
    /\ \E upto \in Len(srs) + 1 .. MaxPowers :
            download' = Some([from |-> Len(srs), upto |-> upto, fetched |-> <<>>])
    /\ UNCHANGED <<srs, first_keys, proof, kept, snark_ret, varsInfo, varsKey, varsVM, varsTxs, varsCommittee>>

\* fetches the powers of its range one by one,
FetchPower ==
    /\ download.some
    /\ download.val.from + Len(download.val.fetched) < download.val.upto
    /\ download' = Some([download.val EXCEPT
                            !.fetched = Append(@, srs_power(download.val.from + Len(download.val.fetched)))])
    /\ UNCHANGED <<srs, first_keys, proof, kept, snark_ret, varsInfo, varsKey, varsVM, varsTxs, varsCommittee>>

\* and publishes them.
PublishPowers ==
    /\ download.some
    /\ download.val.from + Len(download.val.fetched) = download.val.upto
    /\ srs' = publish_powers(srs, download.val)
    /\ download' = None
    /\ snark_ret' = [call |-> "download_powers_for"]
    /\ UNCHANGED <<first_keys, proof, kept, varsInfo, varsKey, varsVM, varsTxs, varsCommittee>>

\* circuit_setup(&universal_srs, &circuit)
CircuitSetup ==
    \E c \in DOMAIN TestCircuits :
        LET out == circuit_setup(read_table(srs, download), TestCircuits[c])
        IN  /\ srs' = out.srs
            /\ first_keys' = IF first_keys[c].some THEN first_keys
                             ELSE [first_keys EXCEPT ![c] = Some([pk |-> out.pk, vk |-> out.vk,
                                                                  powers |-> Len(srs')])]
            /\ snark_ret' = [call |-> "circuit_setup", circuit |-> c, pk |-> out.pk, vk |-> out.vk]
            /\ UNCHANGED <<proof, download, kept, varsInfo, varsKey, varsVM, varsTxs, varsCommittee>>

\* circuit_setup and to_universal_prover for a circuit, as the tests call
\* them: .unwrap() panics on an error.
ToUniversalProver ==
    \E c \in DOMAIN TestCircuits, mode \in HidingModes :
        LET seen == read_table(srs, download)
            keys == circuit_setup(seen, TestCircuits[c])
            prover == universal_prover_for(keys.srs, c, mode = "VarunaHidingMode")
        IN  /\ srs' = prover.srs
            /\ snark_ret' = [call |-> "to_universal_prover", held |-> Len(seen), published |-> Len(srs),
                             in_flight |-> download,
                             max_degree |-> prover.key.max_degree, result |-> prover.kind,
                             powers |-> Len(prover.key.committer_key)]
            /\ UNCHANGED <<first_keys, proof, download, kept, varsInfo, varsKey, varsVM, varsTxs, varsCommittee>>

\* batch_circuit_setup, to_universal_prover and prove_batch for the circuits
\* ids with m instances each.
ProveBatch(ids, m, mode, rng) ==
    LET inputs == [c \in ids |-> gen_rand(rng + CircuitRank[c], m)]
        table == batch_srs(srs, ids)
        keys == [c \in ids |-> circuit_setup(table, TestCircuits[c])]
        prover == universal_prover_for_batch(table, ids, mode = "VarunaHidingMode")
        made == prove_batch(prover.key, values_in_order([c \in ids |->
                                [key |-> keys[c].pk, instances |-> inputs[c]]], TRUE), mode, rng)
    IN  /\ srs' = prover.srs
        /\ proof' = IF made.kind # "ok" THEN proof
                    ELSE Some([proof |-> made.val, prover |-> prover.key,
                               vks |-> [c \in ids |-> keys[c].vk], inputs |-> inputs,
                               powers |-> Len(prover.srs)])
        /\ snark_ret' = [call |-> "prove_batch", mode |-> mode, result |-> made.kind]
        /\ UNCHANGED <<first_keys, download, kept, varsInfo, varsKey, varsVM, varsTxs, varsCommittee>>

\* The proofs of test_circuit: for a batch of circuits with the same number
\* of instances each (prove is the batch of one circuit and one instance).
Prove ==
    \E mode \in HidingModes, ids \in (SUBSET (DOMAIN TestCircuits)) \ {{}}, m \in 1 .. MaxInstances, rng \in Seeds :
        ProveBatch(ids, m, mode, rng)

\* The proofs of test_srs_downloads: one of the first circuit, which is
\* verified and kept, then proofs of the second circuit.
ProveFirst ==
    /\ ~proof.some
    /\ \E mode \in HidingModes, rng \in Seeds : ProveBatch({"c1"}, 1, mode, rng)

ProveOther ==
    /\ kept.some
    /\ \E mode \in HidingModes, rng \in Seeds : ProveBatch({"c2"}, 1, mode, rng)

\* The public inputs of a batch with those of one instance replaced.
replace_input(inputs, c, j, random) == [inputs EXCEPT ![c][j] = random]

\* verify_batch on the last proof: with the genuine public inputs or with
\* those of one instance replaced by a random vector of the same shape (which
\* differs from the genuine one), under the verifying keys of the proving
\* time or under keys that circuit_setup derives now; vks_to_inputs is a
\* BTreeMap, iterated in the order of its keys.
Verify ==
    /\ proof.some
    /\ \E rederive \in BOOLEAN, replace \in BOOLEAN :
        \E c \in DOMAIN proof.val.inputs :
            \E j \in 1 .. Len(proof.val.inputs[c]) :
                \E random \in {v \in InputVectors : replace /\ v # proof.val.inputs[c][j]}
                                \cup {v \in {proof.val.inputs[c][j]} : ~replace} :
                    LET ids == DOMAIN proof.val.inputs
                        vks == [d \in ids |-> IF rederive THEN circuit_setup(srs, TestCircuits[d]).vk
                                              ELSE proof.val.vks[d]]
                        inputs == replace_input(proof.val.inputs, c, j, random)
                    IN  /\ snark_ret' = [call |-> "verify_batch", replaced |-> replace, rederived |-> rederive,
                                         extended |-> Len(srs) > proof.val.powers,
                                         result |-> verify_batch(values_in_order([d \in ids |->
                                                        [key |-> vks[d], instances |-> inputs[d]]], TRUE),
                                                                 proof.val.proof)]
                        /\ UNCHANGED <<srs, first_keys, proof, download, kept, varsInfo, varsKey, varsVM, varsTxs, varsCommittee>>

\* The first verify of a proof, with the genuine public inputs or with
\* replaced ones: the call and its result are kept.
VerifyFirst ==
    /\ proof.some /\ ~kept.some
    /\ \E random \in InputVectors :
            LET vks_to_inputs == values_in_order([d \in DOMAIN proof.val.inputs |->
                                    [key |-> proof.val.vks[d],
                                     instances |-> replace_input(proof.val.inputs, d, 1, random)[d]]], TRUE)
                result == verify_batch(vks_to_inputs, proof.val.proof)
            IN  /\ kept' = Some([vks_to_inputs |-> vks_to_inputs, proof |-> proof.val.proof,
                                 powers |-> Len(srs), result |-> result])
                /\ snark_ret' = [call |-> "verify_first", result |-> result]
    /\ UNCHANGED <<srs, first_keys, proof, download, varsInfo, varsKey, varsVM, varsTxs, varsCommittee>>

\* The kept call of verify, repeated.
VerifyKept ==
    /\ kept.some
    /\ snark_ret' = [call |-> "verify_kept", other_proof |-> proof.val.proof # kept.val.proof,
                     extended |-> Len(srs) > kept.val.powers,
                     result |-> verify_batch(kept.val.vks_to_inputs, kept.val.proof)]
    /\ UNCHANGED <<srs, first_keys, proof, download, kept, varsInfo, varsKey, varsVM, varsTxs, varsCommittee>>

\* circuit_setup, to_universal_prover and prove_vk for a circuit: the caller
\* holds the certificate.
ProveVk ==
    \E c \in DOMAIN TestCircuits, mode \in HidingModes :
        LET keys == circuit_setup(srs, TestCircuits[c])
            prover == universal_prover_for(keys.srs, c, mode = "VarunaHidingMode")
        IN  /\ srs' = prover.srs
            /\ snark_ret' = [call |-> "prove_vk", circuit |-> c, vk |-> keys.vk,
                             certificate |-> prove_vk(prover.key, keys.vk, keys.pk)]
            /\ UNCHANGED <<first_keys, proof, download, kept, varsInfo, varsKey, varsVM, varsTxs, varsCommittee>>

\* verify_vk of the certificate in hand, against the circuit the keys were
\* derived from or against another circuit.
VerifyVk ==
    /\ snark_ret.call = "prove_vk" /\ snark_ret.certificate.kind = "ok"
    /\ \E claimed \in DOMAIN TestCircuits :
            snark_ret' = [call |-> "verify_vk", circuit |-> snark_ret.circuit, claimed |-> claimed,
                          result |-> verify_vk(to_universal_verifier(srs), TestCircuits[claimed],
                                               snark_ret.vk, snark_ret.certificate.val)]
    /\ UNCHANGED <<srs, first_keys, proof, download, kept, varsInfo, varsKey, varsVM, varsTxs, varsCommittee>>

NextSnark == DownloadPowersFor \/ CircuitSetup \/ Prove \/ Verify

NextVerify ==
    DownloadPowersFor \/ ProveFirst \/ VerifyFirst \/ ProveOther \/ Verify \/ ProveVk \/ VerifyVk \/ VerifyKept

NextSrs == BeginDownload \/ FetchPower \/ PublishPowers \/ CircuitSetup \/ ToUniversalProver

\* The ledger after the genesis block.
GenesisLedger ==
    [transaction_ids |-> {}, transition_ids |-> {}, input_ids |-> {}, serial_numbers |-> {}, tags |-> {},
     output_ids |-> {}, commitments |-> {}, nonces |-> {}, tpks |-> {}, tcms |-> {}, rejected_ids |-> {}, program_ids |-> {}, restricted |-> {},
     state_roots |-> {StateRoot}, balances |-> [p \in {Payer} |-> 100]]

\* The ledger after a block with the given transaction.
ledger_with(transaction) ==
    [GenesisLedger EXCEPT !.transaction_ids = {transaction.id},
                          !.transition_ids = {transition_ids(transaction)[k] : k \in 1 .. Len(transition_ids(transaction))},
                          !.input_ids = {input_ids(transaction)[k] : k \in 1 .. Len(input_ids(transaction))},
                          !.serial_numbers = {serial_numbers(transaction)[k] :
                                                k \in 1 .. Len(serial_numbers(transaction))},
                          !.tags = {tags(transaction)[k] : k \in 1 .. Len(tags(transaction))},
                          !.commitments = {commitments(transaction)[k] : k \in 1 .. Len(commitments(transaction))},
                          !.nonces = {nonces(transaction)[k] : k \in 1 .. Len(nonces(transaction))},
                          !.output_ids = {output_ids(transaction)[k] : k \in 1 .. Len(output_ids(transaction))},
                          !.tpks = {transition_public_keys(transaction)[k] :
                                        k \in 1 .. Len(transition_public_keys(transaction))},
                          !.tcms = {transition_commitments(transaction)[k] :
                                        k \in 1 .. Len(transition_commitments(transaction))}]

honest_mint ==
    CHOOSE e \in HonestExecutions : Len(e.transitions) = 1 /\ main_of(e).function_name = "mint"

FeeKinds == {"valid", "none", "stale", "low", "excess"}

\* The fee a transaction is given for its execution; original is the
\* execution as it was proved.
fee_for(execution, original, kind) ==
    CASE kind = "none" -> None
      [] kind = "stale" -> Some(new_fee(3, 1, to_execution_id(original), StateRoot, Some(Payer)))
      [] kind = "low" -> Some(new_fee(0, 1, to_execution_id(execution), StateRoot, Some(Payer)))
      [] kind = "excess" -> Some(new_fee(MAX_FEE, 1, to_execution_id(execution), StateRoot, Some(Payer)))
      [] OTHER -> Some(new_fee(3, 1, to_execution_id(execution), StateRoot, Some(Payer)))

\* Execute transactions: honest executions with every kind of fee, and
\* executions mutated after proving with a fresh valid fee.
ExecuteTransactions ==
    { from_execution(e, fee_for(e, e, f)) : e \in HonestExecutions, f \in FeeKinds }
        \cup { from_execution(mutate(e, m), fee_for(mutate(e, m), e, "valid")) :
                    e \in HonestExecutions, m \in {"append_output", "tamper_input"} }

GoodDeployment == [program_id |-> "fresh.aleo", edition |-> N_EDITION, cost |-> 2, verifies |-> TRUE]

Deployments ==
    { GoodDeployment,
      [GoodDeployment EXCEPT !.program_id = "token.aleo"],
      [GoodDeployment EXCEPT !.edition = N_EDITION + 1],
      [GoodDeployment EXCEPT !.verifies = FALSE] }

DeployTransactions ==
    { from_deployment(TRUE, d, new_fee(3, 1, to_deployment_id(d), StateRoot, Some(Payer))) : d \in Deployments }
        \cup { from_deployment(FALSE, GoodDeployment,
                                new_fee(3, 1, to_deployment_id(GoodDeployment), StateRoot, Some(Payer))),
                from_deployment(TRUE, GoodDeployment,
                                new_fee(1, 1, to_deployment_id(GoodDeployment), StateRoot, Some(Payer))) }

FeeTransactions == { from_fee(new_fee(3, 1, to_execution_id(honest_mint), StateRoot, Some(Payer))) }

Transactions == ExecuteTransactions \cup DeployTransactions \cup FeeTransactions

RejectedIds == {None, Some(to_execution_id(honest_mint))}

Ledgers ==
    { GenesisLedger,
      ledger_with(from_execution(honest_mint, fee_for(honest_mint, honest_mint, "valid"))),
      [GenesisLedger EXCEPT !.restricted = {"burn"}] }

NoVMCall == [call |-> "none"]

InitVM ==
    /\ test_skip_tx_checks \in BOOLEAN
    /\ ledger \in Ledgers
    /\ cache = <<>>
    /\ vm_ret = NoVMCall

IdleVM ==
    /\ test_skip_tx_checks = FALSE
    /\ ledger = GenesisLedger
    /\ cache = <<>>
    /\ vm_ret = NoVMCall

\* A call of Process::verify_execution on an execution, honest or mutated.
VerifyExecution ==
    \E e \in HonestExecutions, m \in Mutations, ascending \in BOOLEAN :
        LET execution == mutate(e, m)
        IN  /\ vm_ret' = [call |-> "verify_execution", execution |-> execution, ascending |-> ascending,
                          result |-> verify_execution(execution, ascending)]
            /\ UNCHANGED <<test_skip_tx_checks, ledger, cache, varsInfo, varsKey, varsSnark, varsTxs, varsCommittee>>

\* A call of VM::check_transaction; halts tells whether the verification of
\* the deployment or of the execution, once entered, panics.
CheckTransaction ==
    \E transaction \in Transactions, rejected_id \in RejectedIds, ascending \in BOOLEAN, halts \in BOOLEAN :
        LET checked == check_transaction(transaction, rejected_id, ascending, halts)
        IN  /\ vm_ret' = [call |-> "check_transaction", transaction |-> transaction,
                          rejected_id |-> rejected_id, halts |-> halts, result |-> checked.result]
            /\ cache' = checked.cache
        /\ UNCHANGED <<test_skip_tx_checks, ledger, varsInfo, varsKey, varsSnark, varsTxs, varsCommittee>>

NextVM == VerifyExecution \/ CheckTransaction

----------------------------------------------------------------------------
\* The checks that check_transaction is made of, called on their own:
\* check_fee, check_fee_internal and check_execution_internal.

split_transition ==
    new_transition("split", <<[id |-> 17, tag |-> Some(43), index |-> None]>>,
                   <<[id |-> 27, checksum |-> Some(37), nonce |-> Some(47), index |-> None]>>,
                   [x |-> 18, y |-> 19], 20, None)

\* Executions for check_fee: a split alone, a split among two transitions,
\* and honest executions of one and of two transitions.
FeeExecutions ==
    { execution_from(<<split_transition>>, StateRoot, prove_execution(<<split_transition>>)),
      execution_from(<<split_transition, mint_transition>>, StateRoot, None) }
        \cup { e \in HonestExecutions : main_of(e).function_name \in {"mint", "pay"} }

\* The fees a transaction may come with for an ID: base amounts below, at and
\* above the costs, and one beyond MAX_FEE; each of them as it should be,
\* authorized for another ID, at an unknown state root, public without a
\* payer, private, and private at an unknown state root.
fees_for(id) ==
    UNION { LET fee == new_fee(base, 1, id, StateRoot, Some(Payer))
                private == [fee EXCEPT !.is_fee_public = FALSE, !.payer = None]
            IN  { fee,
                  [fee EXCEPT !.authorized_id = <<"other">>],
                  [fee EXCEPT !.global_state_root = StateRoot + 1],
                  [fee EXCEPT !.payer = None],
                  private,
                  [private EXCEPT !.global_state_root = StateRoot + 1] }
          : base \in {0, 1, 2, MAX_FEE} }

FeeCases ==
    { from_execution(e, fee) : e \in FeeExecutions, fee \in {None} }
        \cup UNION { { from_execution(e, Some(f)) : f \in fees_for(to_execution_id(e)) } : e \in FeeExecutions }
        \cup { from_deployment(TRUE, GoodDeployment, f) : f \in fees_for(to_deployment_id(GoodDeployment)) }
        \cup { from_fee(f) : f \in fees_for(to_execution_id(honest_mint)) }

\* Ledgers for the checks: the payer with a large balance, with a small one
\* and with none; no state root; a restricted function.
FeeLedgers ==
    { GenesisLedger,
      [GenesisLedger EXCEPT !.balances = [p \in {Payer} |-> 2]],
      [GenesisLedger EXCEPT !.balances = [p \in {} |-> 0]],
      [GenesisLedger EXCEPT !.state_roots = {}],
      [GenesisLedger EXCEPT !.restricted = {"mint"}] }

InitFee ==
    /\ test_skip_tx_checks = FALSE
    /\ ledger \in FeeLedgers
    /\ cache = <<>>
    /\ vm_ret = NoVMCall

\* A call of VM::check_fee.
CheckFee ==
    \E transaction \in FeeCases, rejected_id \in RejectedIds :
        /\ vm_ret' = [call |-> "check_fee", transaction |-> transaction, rejected_id |-> rejected_id,
                      result |-> check_fee(transaction, rejected_id)]
        /\ UNCHANGED <<test_skip_tx_checks, ledger, cache, varsInfo, varsKey, varsSnark, varsTxs, varsCommittee>>

\* A call of VM::check_fee_internal.
CheckFeeInternal ==
    \E fee \in fees_for(to_execution_id(honest_mint)) :
        /\ vm_ret' = [call |-> "check_fee_internal", fee |-> fee, id |-> to_execution_id(honest_mint),
                      result |-> check_fee_internal(fee, to_execution_id(honest_mint))]
        /\ UNCHANGED <<test_skip_tx_checks, ledger, cache, varsInfo, varsKey, varsSnark, varsTxs, varsCommittee>>

\* A call of VM::check_execution_internal.
CheckExecutionInternal ==
    \E e \in HonestExecutions, m \in Mutations, is_partially_verified \in BOOLEAN, ascending \in BOOLEAN :
        /\ vm_ret' = [call |-> "check_execution_internal", execution |-> mutate(e, m),
                      is_partially_verified |-> is_partially_verified, ascending |-> ascending,
                      result |-> check_execution_internal(mutate(e, m), is_partially_verified, ascending)]
        /\ UNCHANGED <<test_skip_tx_checks, ledger, cache, varsInfo, varsKey, varsSnark, varsTxs, varsCommittee>>

NextFee == CheckFee \/ CheckFeeInternal \/ CheckExecutionInternal

----------------------------------------------------------------------------
\* check_transaction on transactions with an element that occurs twice and
\* on ledgers that hold an element of the transaction.

\* A split that shares nothing with split_transition.
other_transition ==
    new_transition("split", <<[id |-> 51, tag |-> Some(52), index |-> None]>>,
                   <<[id |-> 53, checksum |-> Some(54), nonce |-> Some(55), index |-> None]>>,
                   [x |-> 56, y |-> 57], 58, None)

\* other_transition with one element of split_transition.
twins ==
    { other_transition,
      [other_transition EXCEPT !.id = split_transition.id],
      new_transition("split", <<[other_transition.inputs[1] EXCEPT !.id = split_transition.inputs[1].id]>>,
                     other_transition.outputs, other_transition.tpk, other_transition.tcm, None),
      new_transition("split", <<[other_transition.inputs[1] EXCEPT !.tag = split_transition.inputs[1].tag]>>,
                     other_transition.outputs, other_transition.tpk, other_transition.tcm, None),
      new_transition("split", other_transition.inputs,
                     <<[other_transition.outputs[1] EXCEPT !.id = split_transition.outputs[1].id]>>,
                     other_transition.tpk, other_transition.tcm, None),
      new_transition("split", other_transition.inputs,
                     <<[other_transition.outputs[1] EXCEPT !.nonce = split_transition.outputs[1].nonce]>>,
                     other_transition.tpk, other_transition.tcm, None),
      new_transition("split", other_transition.inputs, other_transition.outputs,
                     split_transition.tpk, other_transition.tcm, None),
      new_transition("split", other_transition.inputs, other_transition.outputs,
                     other_transition.tpk, split_transition.tcm, None) }

\* A split with its proof and without a fee, which passes every check.
split_transaction ==
    from_execution(execution_from(<<split_transition>>, StateRoot, prove_execution(<<split_transition>>)), None)

\* Transactions of two transitions that come without a fee and without a
\* proof, the split transaction, and the split transaction under another ID.
DuplicateCases ==
    { from_execution(execution_from(<<split_transition, twin>>, StateRoot, None), None) : twin \in twins }
        \cup { split_transaction, [split_transaction EXCEPT !.id = <<"other">>] }

\* The stores of the ledger that check_transaction looks into.
Stores ==
    { "transaction_ids", "transition_ids", "input_ids", "serial_numbers", "tags", "output_ids",
      "commitments", "nonces", "tpks", "tcms" }

\* The genesis ledger, and for each store the ledger that holds the split
\* transaction in that store only.
DuplicateLedgers ==
    { GenesisLedger }
        \cup { [GenesisLedger EXCEPT ![store] = ledger_with(split_transaction)[store]] : store \in Stores }

InitDuplicates ==
    /\ test_skip_tx_checks \in BOOLEAN
    /\ ledger \in DuplicateLedgers
    /\ cache = <<>>
    /\ vm_ret = NoVMCall

\* A call of VM::check_transaction on one of these transactions.
CheckDuplicates ==
    \E transaction \in DuplicateCases :
        LET checked == check_transaction(transaction, None, TRUE, FALSE)
        IN  /\ vm_ret' = [call |-> "check_transaction", transaction |-> transaction,
                          rejected_id |-> None, halts |-> FALSE, result |-> checked.result]
            /\ cache' = checked.cache
        /\ UNCHANGED <<test_skip_tx_checks, ledger, varsInfo, varsKey, varsSnark, varsTxs, varsCommittee>>

NextDuplicates == CheckDuplicates

----------------------------------------------------------------------------
\* VM::check_transactions: the transactions of a call are verified chunk by
\* chunk, those of a chunk in parallel.

MAX_PARALLEL_DEPLOY_VERIFICATIONS == 5
MAX_PARALLEL_EXECUTE_VERIFICATIONS == 1000

\* [T]::chunks(chunk_size): the slices of chunk_size elements, the last one shorter.
RECURSIVE slice_chunks(_, _)
slice_chunks(list, chunk_size) ==
    IF list = <<>> THEN <<>>
    ELSE IF Len(list) <= chunk_size THEN <<list>>
    ELSE <<SubSeq(list, 1, chunk_size)>> \o slice_chunks(SubSeq(list, chunk_size + 1, Len(list)), chunk_size)

\* A variant of chunks_for_verification that cuts the list as it came, by the larger limit.
chunks_of_whole_list(transactions) == slice_chunks(transactions, MAX_PARALLEL_EXECUTE_VERIFICATIONS)

\* The chunks check_transactions iterates over: the deployments, then the rest.
chunks_for_verification(transactions) ==
    LET is_deploy(t) == t.is_deploy
        is_not_deploy(t) == ~t.is_deploy
    IN  slice_chunks(SelectSeq(transactions, is_deploy), MAX_PARALLEL_DEPLOY_VERIFICATIONS)
            \o slice_chunks(SelectSeq(transactions, is_not_deploy), MAX_PARALLEL_EXECUTE_VERIFICATIONS)

\* A list of deployments and other transactions, interleaved as long as both
\* last; check_transaction returns an error for those that are invalid.
transaction_list(deployments, others, invalid) ==
    [k \in 1 .. deployments + others |->
        [id |-> k, valid |-> k \notin invalid,
         is_deploy |-> IF k <= 2 * (IF deployments <= others THEN deployments ELSE others)
                       THEN k % 2 = 1 ELSE deployments > others]]

\* Lists with no invalid transaction, with the first, the second, the last,
\* and the first and the last one invalid.
TransactionLists ==
    UNION { { transaction_list(deployments, others, invalid \cap (1 .. deployments + others)) :
                invalid \in { {}, {1}, {2}, {deployments + others}, {1, deployments + others} } } :
        deployments \in {0, 1, MAX_PARALLEL_DEPLOY_VERIFICATIONS, MAX_PARALLEL_DEPLOY_VERIFICATIONS + 1,
                         2 * MAX_PARALLEL_DEPLOY_VERIFICATIONS + 1},
        others \in {0, 1, MAX_PARALLEL_EXECUTE_VERIFICATIONS + 1} }

\* A loop over the chunk that goes on after an error.
try_for_each_ignoring_errors(failed, transaction) == FALSE

\* try_for_each(..)?: the chunk fails once check_transaction returned an
\* error for one of its transactions.
try_for_each(failed, transaction) == failed \/ ~transaction.valid

IdleTxs ==
    /\ chunks = <<>>
    /\ verifying = <<>>
    /\ txs_ret = [call |-> "none"]

\* A call of check_transactions: the list is partitioned and cut into chunks.
CheckTransactions ==
    /\ txs_ret.call # "check_transactions"
    /\ \E transactions \in TransactionLists :
            /\ chunks' = chunks_for_verification(transactions)
            /\ txs_ret' = [call |-> "check_transactions", transactions |-> Len(transactions),
                           invalid |-> {k \in 1 .. Len(transactions) : ~transactions[k].valid},
                           failed |-> FALSE]
    /\ UNCHANGED <<verifying, varsInfo, varsKey, varsVM, varsSnark, varsCommittee>>

\* The loop takes the next chunk, unless a transaction of the chunk before
\* failed: the parallel iterator starts the verification of each of its
\* transactions.
StartChunk ==
    /\ txs_ret.call = "check_transactions" /\ ~txs_ret.failed
    /\ verifying = <<>> /\ chunks # <<>>
    /\ verifying' = Head(chunks)
    /\ chunks' = Tail(chunks)
    /\ UNCHANGED <<txs_ret, varsInfo, varsKey, varsVM, varsSnark, varsCommittee>>

\* The verification of a transaction of the chunk finishes: check_transaction
\* returns Ok or an error.
FinishTransaction ==
    /\ verifying # <<>>
    /\ verifying' = Tail(verifying)
    /\ txs_ret' = [txs_ret EXCEPT !.failed = try_for_each(@, Head(verifying))]
    /\ UNCHANGED <<chunks, varsInfo, varsKey, varsVM, varsSnark, varsCommittee>>

\* check_transactions returns: after the last chunk, or with the error of a
\* chunk once all of its transactions finished.
ReturnCheckTransactions ==
    /\ txs_ret.call = "check_transactions"
    /\ verifying = <<>> /\ (chunks = <<>> \/ txs_ret.failed)
    /\ chunks' = <<>>
    /\ txs_ret' = [call |-> "returned", transactions |-> txs_ret.transactions,
                   invalid |-> txs_ret.invalid,
                   result |-> IF txs_ret.failed
                              THEN Err("Invalid transaction found in the transactions list")
                              ELSE Ok(<<>>)]
    /\ UNCHANGED <<verifying, varsInfo, varsKey, varsVM, varsSnark, varsCommittee>>

NextTxs == CheckTransactions \/ StartChunk \/ FinishTransaction \/ ReturnCheckTransactions

----------------------------------------------------------------------------
\* The committee of the ledger, as its property tests use it.

MIN_STAKE == 2
StakeSpan == 2
MAX_COMMITTEE_SIZE == 5
MaxRound == 4

Addresses == 1 .. MAX_COMMITTEE_SIZE

\* any_valid_validator and invalid_stake_validator: the validators a strategy
\* draws for an address; 0 stands for no validator of that address.
validator_of(address, choice) ==
    CASE choice = 1 -> [address |-> address, stake |-> MIN_STAKE - 1, is_open |-> FALSE]
      [] choice = 2 -> [address |-> address, stake |-> MIN_STAKE, is_open |-> FALSE]
      [] OTHER -> [address |-> address, stake |-> MIN_STAKE + StakeSpan - 1, is_open |-> TRUE]

\* The validators a strategy generates before they are put into the set: one
\* per chosen address and, with again, a second validator with the address of
\* the first one and another stake.
RECURSIVE generated_from(_, _)
generated_from(choices, address) ==
    IF address > MAX_COMMITTEE_SIZE THEN <<>>
    ELSE (IF choices[address] = 0 THEN <<>> ELSE <<validator_of(address, choices[address])>>)
            \o generated_from(choices, address + 1)

generated(choices, again) ==
    LET drawn == generated_from(choices, 1)
    IN  IF again /\ drawn # <<>>
        THEN Append(drawn, [drawn[1] EXCEPT !.stake = IF @ = MIN_STAKE THEN MIN_STAKE + 1 ELSE MIN_STAKE])
        ELSE drawn

\* A set of validators that tells them apart by all of their fields.
RECURSIVE hash_set_of_structs(_)
hash_set_of_structs(drawn) ==
    IF drawn = <<>> THEN <<>>
    ELSE LET earlier == hash_set_of_structs(SubSeq(drawn, 1, Len(drawn) - 1))
             v == drawn[Len(drawn)]
         IN  IF \E k \in 1 .. Len(earlier) : earlier[k] = v THEN earlier ELSE Append(earlier, v)

\* HashSet<Validator>: Eq and Hash of Validator look at the address only, so
\* the set keeps the first validator of every address.
RECURSIVE hash_set(_)
hash_set(drawn) ==
    IF drawn = <<>> THEN <<>>
    ELSE LET earlier == hash_set(SubSeq(drawn, 1, Len(drawn) - 1))
             v == drawn[Len(drawn)]
         IN  IF \E k \in 1 .. Len(earlier) : earlier[k].address = v.address THEN earlier ELSE Append(earlier, v)

\* validators.iter().map(|v| (v.address, (v.stake, v.is_open))).collect():
\* a map from the address; a later entry of an address replaces an earlier one.
collect_members(validators) ==
    [a \in {validators[k].address : k \in 1 .. Len(validators)} |->
        LET last == CHOOSE k \in 1 .. Len(validators) :
                        /\ validators[k].address = a
                        /\ \A j \in k + 1 .. Len(validators) : validators[j].address # a
        IN  [stake |-> validators[last].stake, is_open |-> validators[last].is_open]]

\* The sum of the stakes of a map of members.
RECURSIVE compute_total_stake(_)
compute_total_stake(members) ==
    IF DOMAIN members = {} THEN 0
    ELSE LET a == CHOOSE x \in DOMAIN members : TRUE
         IN  members[a].stake + compute_total_stake([x \in DOMAIN members \ {a} |-> members[x]])

\* A constructor that asks for sufficient stake of some member only.
Committee_new_some_stake(round, members) ==
    IF round = 0 THEN Err("Round must be nonzero")
    ELSE IF Cardinality(DOMAIN members) < 4 THEN Err("Committee must have at least 4 members")
    ELSE IF \A a \in DOMAIN members : members[a].stake < MIN_STAKE
        THEN Err("All members must have sufficient stake")
    ELSE Ok([starting_round |-> round, members |-> members, total_stake |-> compute_total_stake(members)])

\* Committee::new
Committee_new(round, members) ==
    IF round = 0 THEN Err("Round must be nonzero")
    ELSE IF Cardinality(DOMAIN members) < 4 THEN Err("Committee must have at least 4 members")
    ELSE IF \E a \in DOMAIN members : members[a].stake < MIN_STAKE
        THEN Err("All members must have sufficient stake")
    ELSE Ok([starting_round |-> round, members |-> members, total_stake |-> compute_total_stake(members)])

\* to_committee of the property tests.
to_committee(round, validators) == Committee_new(round, collect_members(validators))

\* The accessors of Committee.
num_members(c) == Cardinality(DOMAIN c.members)
total_stake(c) == c.total_stake
is_committee_member(c, address) == address \in DOMAIN c.members
get_stake(c, address) == IF address \in DOMAIN c.members THEN c.members[address].stake ELSE 0

\* Committee::availability_threshold (f + 1) and Committee::quorum_threshold
\* (2f + 1), both in stake.
availability_threshold(c) == (total_stake(c) + 2) \div 3
quorum_threshold(c) == (total_stake(c) * 2) \div 3 + 1

\* A committee of the same round.
to_same_round(c) == c

\* Committee::to_next_round
to_next_round(c) == [c EXCEPT !.starting_round = @ + 1]

\* The loop of committee_members over the validators: the sum of the stakes.
RECURSIVE sum_of_stakes(_)
sum_of_stakes(validators) ==
    IF validators = <<>> THEN 0 ELSE Head(validators).stake + sum_of_stakes(Tail(validators))

IdleCommittee ==
    /\ committee = None
    /\ committee_ret = [call |-> "none"]

\* The case of a property test: a strategy has drawn a round and a set of
\* validators.
InitCommittee ==
    /\ committee = None
    /\ \E round \in 0 .. 2, choices \in [Addresses -> 0 .. 3], again \in BOOLEAN :
            committee_ret = [call |-> "drawn", round |-> round,
                             validators |-> hash_set(generated(choices, again))]

\* to_committee builds the committee of the round and the validators drawn.
ToCommittee ==
    /\ committee_ret.call = "drawn"
    /\ LET result == to_committee(committee_ret.round, committee_ret.validators)
       IN  /\ committee' = IF result.kind = "ok" THEN Some(result.val) ELSE None
           /\ committee_ret' = [call |-> "to_committee", round |-> committee_ret.round,
                                validators |-> committee_ret.validators, result |-> result]
    /\ UNCHANGED <<varsInfo, varsKey, varsVM, varsSnark, varsTxs>>

\* committee_advance: the committee moves to its next round.
ToNextRound ==
    /\ committee.some
    /\ committee.val.starting_round < MaxRound
    /\ committee' = Some(to_next_round(committee.val))
    /\ committee_ret' = [call |-> "to_next_round", before |-> committee.val]
    /\ UNCHANGED <<varsInfo, varsKey, varsVM, varsSnark, varsTxs>>

NextCommittee == ToCommittee \/ ToNextRound

vars == <<info, ret, shown, parsed, test_skip_tx_checks, ledger, cache, vm_ret,
          srs, first_keys, proof, download, kept, snark_ret, chunks, verifying, txs_ret,
          committee, committee_ret>>

InitSpecInfo == InitInfo /\ InitKey /\ IdleVM /\ InitSnark /\ IdleTxs /\ IdleCommittee

SpecInfo == InitSpecInfo /\ [][NextInfo]_vars

InitSpecKey == IdleInfo /\ InitKey /\ IdleVM /\ InitSnark /\ IdleTxs /\ IdleCommittee

SpecKey == InitSpecKey /\ [][NextKey]_vars

InitSpecVM == IdleInfo /\ InitKey /\ InitVM /\ InitSnark /\ IdleTxs /\ IdleCommittee

SpecVM == InitSpecVM /\ [][NextVM]_vars

InitSpecSnark == IdleInfo /\ InitKey /\ IdleVM /\ InitSnark /\ IdleTxs /\ IdleCommittee

SpecSnark == InitSpecSnark /\ [][NextSnark]_vars

InitSpecVerify == IdleInfo /\ InitKey /\ IdleVM /\ InitSnark /\ IdleTxs /\ IdleCommittee

SpecVerify == InitSpecVerify /\ [][NextVerify]_vars

InitSpecTxs == IdleInfo /\ InitKey /\ IdleVM /\ InitSnark /\ IdleTxs /\ IdleCommittee

SpecTxs == InitSpecTxs /\ [][NextTxs]_vars

InitSpecCommittee == IdleInfo /\ InitKey /\ IdleVM /\ InitSnark /\ IdleTxs /\ InitCommittee

SpecCommittee == InitSpecCommittee /\ [][NextCommittee]_vars

InitSpecFee == IdleInfo /\ InitKey /\ InitFee /\ InitSnark /\ IdleTxs /\ IdleCommittee

SpecFee == InitSpecFee /\ [][NextFee]_vars

InitSpecDuplicates == IdleInfo /\ InitKey /\ InitDuplicates /\ InitSnark /\ IdleTxs /\ IdleCommittee

SpecDuplicates == InitSpecDuplicates /\ [][NextDuplicates]_vars

InitSpecSrs == IdleInfo /\ InitKey /\ IdleVM /\ InitSnark /\ IdleTxs /\ IdleCommittee

SpecSrs == InitSpecSrs /\ [][NextSrs]_vars

----------------------------------------------------------------------------
\* Claims about Process::verify_execution and VM::check_transaction.

\* The verifier inputs that verify_execution built in the last call.
Built == IF vm_ret.call = "verify_execution" THEN vm_ret.result.built ELSE <<>>

\* The transitions that the function of a built entry called: the last
\* transitions of the queue, one per function call of the function.
called_by(entry) ==
    last_of(entry.queue, count_function_calls(Functions[entry.transition.function_name].calls))

\* C5, as stated: the vector holds the unit element, tpk.x, tpk.y, tcm, the
\* verifier inputs of the inputs, the verifier inputs of the outputs, the
\* finalize checksum iff the function has a finalize scope, and nothing else.
C5_LayoutWithoutCalls ==
    \A k \in 1 .. Len(Built) :
        LET v == Built[k].inputs
            t == Built[k].transition
            ins == flat_inputs(t.inputs)
            outs == flat_outputs(t.outputs)
            has_finalize == Functions[t.function_name].finalize.some
        IN  /\ Len(v) = 4 + Len(ins) + Len(outs) + (IF has_finalize THEN 1 ELSE 0)
            /\ SubSeq(v, 1, 4) = <<1, t.tpk.x, t.tpk.y, t.tcm>>
            /\ SubSeq(v, 5, 4 + Len(ins)) = ins
            /\ SubSeq(v, 5 + Len(ins), 4 + Len(ins) + Len(outs)) = outs
            /\ has_finalize => v[Len(v)] = hash_bhp1024(t.finalize.val)

\* C5, amended: for every transition, the vector that verify_execution builds
\* is, in this order: the unit element, tpk.x, tpk.y, tcm, the verifier inputs
\* of each input; then, for each transition the function called, the verifier
\* inputs of its inputs followed by its output IDs; then the verifier inputs
\* of each output; and, iff the function has a finalize scope, the checksum of
\* the finalize inputs as the last element.  It holds nothing else.
C5_LayoutWithCalls ==
    \A k \in 1 .. Len(Built) :
        LET v == Built[k].inputs
            t == Built[k].transition
            ins == flat_inputs(t.inputs)
            calls == call_inputs(called_by(Built[k]))
            outs == flat_outputs(t.outputs)
            has_finalize == Functions[t.function_name].finalize.some
        IN  /\ Len(v) = 4 + Len(ins) + Len(calls) + Len(outs) + (IF has_finalize THEN 1 ELSE 0)
            /\ SubSeq(v, 1, 4) = <<1, t.tpk.x, t.tpk.y, t.tcm>>
            /\ SubSeq(v, 5, 4 + Len(ins)) = ins
            /\ SubSeq(v, 5 + Len(ins), 4 + Len(ins) + Len(calls)) = calls
            /\ SubSeq(v, 5 + Len(ins) + Len(calls), 4 + Len(ins) + Len(calls) + Len(outs)) = outs
            /\ has_finalize => v[Len(v)] = hash_bhp1024(t.finalize.val)

\* A call that built the vector of a transition with inputs, outputs, a
\* function call and a finalize scope, and the vector of the called transition.
C5_Witness ==
    /\ Len(Built) = 2
    /\ \E k \in 1 .. Len(Built) :
            /\ Functions[Built[k].transition.function_name].finalize.some
            /\ call_inputs(called_by(Built[k])) # <<>>
            /\ Built[k].transition.inputs # <<>>
            /\ Built[k].transition.outputs # <<>>
            /\ Built[k].inputs[Len(Built[k].inputs)] = hash_bhp1024(Built[k].transition.finalize.val)
    /\ \E k \in 1 .. Len(Built) : ~Functions[Built[k].transition.function_name].finalize.some

\* C12: prove_batch and verify_batch process the groups of instances in the
\* sorted order of their circuits, so the result of verify_execution, its call
\* into the verification of the proof included, is the same for every order
\* in which the hash map of the verifier inputs is iterated.
C12_OrderIndependent ==
    vm_ret.call = "verify_execution" =>
        /\ verify_execution(vm_ret.execution, TRUE) = vm_ret.result
        /\ verify_execution(vm_ret.execution, FALSE) = vm_ret.result

\* An honest execution over two circuits that verified with its groups
\* iterated against the canonical order.
C12_Witness ==
    /\ vm_ret.call = "verify_execution"
    /\ ~vm_ret.ascending
    /\ vm_ret.result.kind = "ok"
    /\ Cardinality({vm_ret.result.built[k].transition.function_name : k \in 1 .. Len(vm_ret.result.built)}) = 2

\* The verifier inputs of the built entries of one function, in the order
\* in which the loop built them.
RECURSIVE built_for(_, _)
built_for(built, name) ==
    IF built = <<>> THEN <<>>
    ELSE (IF Head(built).transition.function_name = name THEN <<Head(built).inputs>> ELSE <<>>)
            \o built_for(Tail(built), name)

\* The errors of Trace::verify_execution_proof.
ProofErrors ==
    {"the global state root is zero", "Expected the execution to contain a proof", "Execution is invalid"}

\* C22: verify_execution returns "There are no transitions in the execution"
\* for an empty execution and "The number of transitions in the execution is
\* incorrect" when the number of transitions differs from the number of calls
\* of the main function, in both cases with no transition looked at and the
\* proof not verified; and whenever it reaches the verification of the proof
\* (it returns Ok or an error of verify_execution_proof), every transition
\* has contributed exactly one instance, to the group of its own function
\* under the verifying key of that function, so that the instances of all
\* groups are as many as the transitions.
C22_CountsBeforeProof ==
    vm_ret.call = "verify_execution" =>
        LET transitions == vm_ret.execution.transitions
            n == Len(transitions)
            result == vm_ret.result
        IN  /\ n = 0 =>
                    /\ result.kind = "err" /\ result.built = <<>>
                    /\ result.error = "There are no transitions in the execution"
            /\ (n > 0 /\ get_number_of_calls(transitions[n].function_name) # n) =>
                    /\ result.kind = "err" /\ result.built = <<>>
                    /\ result.error = "The number of transitions in the execution is incorrect"
            /\ (result.kind = "ok" \/ result.error \in ProofErrors) =>
                    LET groups == verify_transitions(transitions, EmptyMap, <<>>).verifier_inputs
                    IN  /\ n > 0 /\ get_number_of_calls(transitions[n].function_name) = n
                        /\ Len(result.built) = n
                        /\ \A k \in 1 .. n : result.built[k].transition = transitions[n - k + 1]
                        /\ DOMAIN groups = {transitions[k].function_name : k \in 1 .. n}
                        /\ \A name \in DOMAIN groups :
                                /\ groups[name].key = get_verifying_key(name)
                                /\ groups[name].instances = built_for(result.built, name)
                        /\ sum_instances(groups, DOMAIN groups) = n

\* An execution of a function that calls another, with the transition of the
\* called function dropped after proving: rejected for its number of
\* transitions, with its proof in place.
C22_Witness ==
    /\ vm_ret.call = "verify_execution"
    /\ Len(vm_ret.execution.transitions) = 1
    /\ get_number_of_calls(vm_ret.execution.transitions[1].function_name) = 2
    /\ vm_ret.execution.proof.some
    /\ vm_ret.result.error = "The number of transitions in the execution is incorrect"

\* A transition that does not carry what the finalize scope of its function
\* asks for.
LacksFinalize(transition) ==
    LET function == Functions[transition.function_name]
    IN  /\ function.finalize.some
        /\ \/ ~transition.finalize.some
           \/ Len(transition.finalize.val) > MAX_INPUTS
           \/ Len(transition.finalize.val) # function.finalize.val.operands
           \/ Len(transition.finalize.val) # function.finalize.val.inputs

\* C23: verify_execution rejects an execution with a transition of a function
\* with a finalize scope that has no finalize inputs, more than MAX_INPUTS of
\* them, or a number of them that differs from the operands of the finalize
\* command or from the inputs of the finalize logic, and builds no verifier
\* inputs for such a transition; the error it stops with at a transition names
\* what that transition lacks; and the verifier inputs of a transition of a
\* function without a finalize scope end with its outputs, with no checksum,
\* whether or not the transition carries finalize inputs.
C23_FinalizeInputs ==
    vm_ret.call = "verify_execution" =>
        LET transitions == vm_ret.execution.transitions
            n == Len(transitions)
            result == vm_ret.result
            stopped == transitions[n - Len(result.built)]
        IN  /\ (\E k \in 1 .. n : LacksFinalize(transitions[k])) => result.kind = "err"
            /\ \A k \in 1 .. Len(result.built) : ~LacksFinalize(result.built[k].transition)
            /\ (result.kind = "err" /\ result.error = "The transition is missing inputs for 'finalize'") =>
                    (Functions[stopped.function_name].finalize.some /\ ~stopped.finalize.some)
            /\ (result.kind = "err" /\ result.error = "Transition exceeds maximum inputs for finalize") =>
                    (Functions[stopped.function_name].finalize.some
                        /\ Len(stopped.finalize.val) > MAX_INPUTS)
            /\ (result.kind = "err" /\ result.error = "The number of inputs for finalize is incorrect") =>
                    (LacksFinalize(stopped) /\ Len(stopped.finalize.val) <= MAX_INPUTS)
            /\ \A k \in 1 .. Len(result.built) :
                    LET t == result.built[k].transition
                        v == result.built[k].inputs
                        function == Functions[t.function_name]
                        before == 4 + Len(flat_inputs(t.inputs))
                                    + Len(call_inputs(last_of(result.built[k].queue,
                                                              count_function_calls(function.calls))))
                                    + Len(flat_outputs(t.outputs))
                    IN  IF function.finalize.some
                        THEN Len(v) = before + 1 /\ v[Len(v)] = hash_bhp1024(t.finalize.val)
                        ELSE Len(v) = before

\* A transition of a function with a finalize scope that carries more than
\* MAX_INPUTS finalize inputs: rejected, and nothing built for it.
C23_Witness ==
    /\ vm_ret.call = "verify_execution"
    /\ vm_ret.result.kind = "err"
    /\ vm_ret.result.error = "Transition exceeds maximum inputs for finalize"
    /\ vm_ret.result.built = <<>>
    /\ Len(main_of(vm_ret.execution).finalize.val) > MAX_INPUTS

\* C24: check_fee on an Execute transaction without a rejected ID.  The fee
\* is not required iff the execution is one transition and that is a split.
\* A required fee that is missing is an error, and so is one with a base
\* amount below the cost of the execution; a fee that is not required and is
\* there must have a base amount of zero; no fee where none is required is
\* Ok; and every other fee gets the result of check_fee_internal on the fee
\* and the ID of the execution.
C24_ExecuteFee ==
    ( /\ vm_ret.call = "check_fee"
      /\ vm_ret.transaction.type = "execute"
      /\ ~vm_ret.rejected_id.some ) =>
        LET execution == vm_ret.transaction.execution
            fee == vm_ret.transaction.fee
            required == ~(Len(execution.transitions) = 1
                            /\ execution.transitions[1].function_name = "split")
        IN  IF ~fee.some
            THEN vm_ret.result = IF required THEN "Transaction is missing a fee (execution)" ELSE "none"
            ELSE IF required /\ fee.val.base_amount < execution_cost(execution)
                THEN vm_ret.result = "Transaction has an insufficient base fee (execution)"
            ELSE IF ~required /\ fee.val.base_amount # 0
                THEN vm_ret.result = "Transaction has a non-zero base fee (execution)"
            ELSE vm_ret.result = check_fee_internal(fee.val, to_execution_id(execution))

\* An execution of two transitions, one of them a split, that comes without
\* a fee: the fee is required and the call is an error.
C24_Witness ==
    /\ vm_ret.call = "check_fee"
    /\ vm_ret.transaction.type = "execute"
    /\ ~vm_ret.rejected_id.some
    /\ Len(vm_ret.transaction.execution.transitions) = 2
    /\ contains_split(vm_ret.transaction)
    /\ ~vm_ret.transaction.fee.some
    /\ vm_ret.result = "Transaction is missing a fee (execution)"

\* C25: check_fee takes a rejected ID for a Fee transaction only.  A Deploy
\* or an Execute transaction with a rejected ID is an error; a Fee
\* transaction without one is an error; the fee of a Fee transaction gets the
\* result of check_fee_internal on the rejected ID, whatever its base amount,
\* and is Ok only if it was authorized for the rejected ID; a Deploy
\* transaction with a base amount below the cost of the deployment is an
\* error.
C25_RejectedId ==
    vm_ret.call = "check_fee" =>
        LET transaction == vm_ret.transaction
            rejected_id == vm_ret.rejected_id
        IN  /\ (transaction.type = "deploy" /\ rejected_id.some)
                    => vm_ret.result = "Transaction should not have a rejected ID (deployment)"
            /\ (transaction.type = "execute" /\ rejected_id.some)
                    => vm_ret.result = "Transaction should not have a rejected ID (execution)"
            /\ (transaction.type = "fee" /\ ~rejected_id.some)
                    => vm_ret.result = "Transaction is missing a rejected ID (fee)"
            /\ (transaction.type = "fee" /\ rejected_id.some)
                    => /\ vm_ret.result = check_fee_internal(transaction.fee.val, rejected_id.val)
                       /\ vm_ret.result = "none" => transaction.fee.val.authorized_id = rejected_id.val
            /\ (transaction.type = "deploy" /\ ~rejected_id.some
                    /\ transaction.fee.val.base_amount < transaction.deployment.cost)
                    => vm_ret.result = "Transaction has an insufficient base fee (deployment)"

\* A Fee transaction with a base amount of zero that is Ok with the rejected
\* ID its fee was authorized for.
C25_Witness ==
    /\ vm_ret.call = "check_fee"
    /\ vm_ret.transaction.type = "fee"
    /\ vm_ret.rejected_id.some
    /\ vm_ret.transaction.fee.val.base_amount = 0
    /\ vm_ret.transaction.fee.val.authorized_id = vm_ret.rejected_id.val
    /\ vm_ret.result = "none"

\* C26: the partially-verified cache gains an ID only in a call of
\* check_transaction that returns Ok, and the ID is that of the Deploy or
\* Execute transaction of the call; a call that returns an error and a call
\* on a Fee transaction leave the cache as it was, and so does every other
\* operation.
C26_CacheOnlyVerified ==
    [][ IF vm_ret'.call = "check_transaction"
        THEN /\ vm_ret'.result.kind # "ok" => cache' = cache
             /\ vm_ret'.transaction.type = "fee" => cache' = cache
             /\ \A k \in 1 .. Len(cache') :
                    (\A j \in 1 .. Len(cache) : cache[j] # cache'[k])
                        => /\ cache'[k] = vm_ret'.transaction.id
                           /\ vm_ret'.result.kind = "ok"
                           /\ vm_ret'.transaction.type \in {"deploy", "execute"}
        ELSE cache' = cache ]_vars

\* A Fee transaction passed check_transaction after a Deploy or Execute
\* transaction did, and the cache holds the ID of the earlier one only.
C26_Witness ==
    /\ vm_ret.call = "check_transaction"
    /\ vm_ret.transaction.type = "fee"
    /\ vm_ret.result.kind = "ok"
    /\ ~test_skip_tx_checks
    /\ Len(cache) = 1
    /\ cache[1] # vm_ret.transaction.id

\* C27: check_execution_internal returns Ok only if no transition of the
\* execution is restricted and the global state root of the execution exists
\* in the block store, whether the execution was verified before or not; for
\* an execution verified before only the verification of the proof is left
\* out; and an execution whose verification fails gets that error whether
\* its state root exists or not.
C27_ExecutionInternal ==
    vm_ret.call = "check_execution_internal" =>
        LET execution == vm_ret.execution
            restricted == \E k \in 1 .. Len(execution.transitions) :
                              execution.transitions[k].function_name \in ledger.restricted
            known == execution.global_state_root \in ledger.state_roots
            verification == verify_execution(execution, vm_ret.ascending)
        IN  /\ vm_ret.result = "none" => (~restricted /\ known)
            /\ restricted => vm_ret.result = "Execution verification failed - restricted transition found"
            /\ (vm_ret.is_partially_verified /\ ~restricted)
                    => vm_ret.result = IF known THEN "none"
                                       ELSE "Execution verification failed - global state root does not exist (yet)"
            /\ (~vm_ret.is_partially_verified /\ ~restricted /\ verification.kind # "ok")
                    => vm_ret.result = "Execution verification failed - " \o verification.error
            /\ (~vm_ret.is_partially_verified /\ vm_ret.result = "none") => verification.kind = "ok"

\* An execution that does not verify and whose state root the block store
\* does not hold: the error is the one of the verification.
C27_Witness ==
    /\ vm_ret.call = "check_execution_internal"
    /\ ~vm_ret.is_partially_verified
    /\ vm_ret.execution.global_state_root \notin ledger.state_roots
    /\ verify_execution(vm_ret.execution, vm_ret.ascending).kind # "ok"
    /\ vm_ret.result = "Execution verification failed - "
                            \o verify_execution(vm_ret.execution, vm_ret.ascending).error

\* C28: check_fee_internal returns Ok only if the amount of the fee, base
\* and priority, is at most MAX_FEE, the fee was authorized for the given ID,
\* the block store holds the global state root of the fee, and a public fee
\* has a payer whose account balance exists and is at least the amount.
C28_FeeInternal ==
    (vm_ret.call = "check_fee_internal" /\ vm_ret.result = "none") =>
        LET fee == vm_ret.fee
            amount == fee.base_amount + fee.priority_amount
        IN  /\ amount <= MAX_FEE
            /\ fee.authorized_id = vm_ret.id
            /\ fee.global_state_root \in ledger.state_roots
            /\ fee.is_fee_public =>
                    /\ fee.payer.some
                    /\ fee.payer.val \in DOMAIN ledger.balances
                    /\ ledger.balances[fee.payer.val] >= amount

\* A public fee that is Ok: its payer has just the balance the fee takes.
C28_Witness ==
    /\ vm_ret.call = "check_fee_internal"
    /\ vm_ret.result = "none"
    /\ vm_ret.fee.is_fee_public
    /\ vm_ret.fee.payer.some
    /\ ledger.balances[vm_ret.fee.payer.val] = vm_ret.fee.base_amount + vm_ret.fee.priority_amount

\* The errors of the checks of the ID and of the uniqueness of the elements.
UniqueErrors ==
    { "Transaction already exists in the ledger", "Incorrect transaction ID" }
        \cup UNION { { "Found a duplicate " \o name \o " in the transaction",
                       "The " \o name \o " already exists in the ledger" }
                     : name \in { "transition ID", "input ID", "serial number", "tag", "output ID",
                                  "commitment", "nonce", "transition public key", "transition commitment" } }

\* An element of a sequence that occurs twice in it or is in a store.
Reused(items, stored) ==
    \/ \E j, k \in 1 .. Len(items) : j < k /\ items[j] = items[k]
    \/ \E k \in 1 .. Len(items) : items[k] \in stored

deployments_in(list) == Cardinality({k \in 1 .. Len(list) : list[k].is_deploy})
others_in(list) == Cardinality({k \in 1 .. Len(list) : ~list[k].is_deploy})

\* A sequence of transactions within the limits of a chunk.
WithinLimits(list) ==
    /\ deployments_in(list) <= MAX_PARALLEL_DEPLOY_VERIFICATIONS
    /\ others_in(list) <= MAX_PARALLEL_EXECUTE_VERIFICATIONS
    /\ deployments_in(list) = 0 \/ others_in(list) = 0

\* C17: the transactions under verification at any time are at most
\* MAX_PARALLEL_DEPLOY_VERIFICATIONS deployments or at most
\* MAX_PARALLEL_EXECUTE_VERIFICATIONS other transactions, never both kinds;
\* every chunk is within these limits; and the transactions of a chunk start
\* only when none of the chunk before is still under verification.
C17_ChunkedVerification ==
    [][ /\ WithinLimits(verifying')
        /\ chunks' # chunks => \A k \in 1 .. Len(chunks') : WithinLimits(chunks'[k])
        /\ verifying' # <<>> => txs_ret'.call = "check_transactions"
        /\ verifying # <<>> => (verifying' = verifying \/ verifying' = Tail(verifying)) ]_vars

\* A full chunk of non-deployments under verification while the last
\* transaction of the call waits in the next chunk.
C17_Witness ==
    /\ Len(verifying) = MAX_PARALLEL_EXECUTE_VERIFICATIONS
    /\ others_in(verifying) = MAX_PARALLEL_EXECUTE_VERIFICATIONS
    /\ Len(chunks) = 1
    /\ txs_ret.transactions > MAX_PARALLEL_EXECUTE_VERIFICATIONS + MAX_PARALLEL_DEPLOY_VERIFICATIONS

\* Whether the last call of check_transaction entered the verification of the
\* deployment or of the execution: every check before it passed, and for a
\* deployment the transaction was not in the cache.
EnteredVerification ==
    LET transaction == vm_ret.transaction
    IN  /\ ~test_skip_tx_checks
        /\ check_unique(transaction) = "none"
        /\ check_fee(transaction, vm_ret.rejected_id) = "none"
        /\ \/ /\ transaction.type = "deploy"
              /\ transaction.owner_verifies
              /\ transaction.deployment.edition = N_EDITION
              /\ transaction.deployment.program_id \notin ledger.program_ids
              /\ ~contains_program(transaction.deployment.program_id)
              /\ ~cache_peek(transaction.id)
           \/ /\ transaction.type = "execute"
              /\ to_execution_id(transaction.execution) \notin ledger.rejected_ids

\* C18: check_transaction never ends in a panic of the verification of the
\* deployment or of the execution: when that verification panics the call
\* returns the error "VM safely halted transaction ... during verification",
\* when it fails the call returns its error, and the call returns Ok or Err
\* in every other case, so that the caller can verify the next transaction.
C18_NoPanicEscapes ==
    vm_ret.call = "check_transaction" =>
        /\ vm_ret.result.kind \in {"ok", "err"}
        /\ (EnteredVerification /\ vm_ret.halts) =>
                vm_ret.result = Err("VM safely halted transaction during verification")
        /\ (EnteredVerification /\ ~vm_ret.halts /\ vm_ret.transaction.type = "deploy"
                /\ ~vm_ret.transaction.deployment.verifies) =>
                vm_ret.result = Err("Deployment verification failed - Deployment is invalid")
        /\ vm_ret.result = Err("VM safely halted transaction during verification") => vm_ret.halts

\* The verification of an execution panicked after an earlier transaction
\* was verified, and the call returned the error.
C18_Witness ==
    /\ vm_ret.call = "check_transaction"
    /\ vm_ret.halts /\ EnteredVerification
    /\ vm_ret.transaction.type = "execute"
    /\ vm_ret.result = Err("VM safely halted transaction during verification")
    /\ cache # <<>>

\* C4: a transaction whose execution had an external-record output with a
\* zero field element appended to its main transition after proving, with a
\* fresh valid fee for the mutated execution, is rejected by check_transaction
\* (stated for the build that compiles the checks in).
C4_MutatedExecutionRejected ==
    \A e \in HonestExecutions :
        LET mutated == mutate(e, "append_output")
        IN  ( /\ ~test_skip_tx_checks
              /\ vm_ret.call = "check_transaction"
              /\ vm_ret.rejected_id = None
              /\ vm_ret.transaction = from_execution(mutated, fee_for(mutated, e, "valid")) )
                => vm_ret.result.kind = "err"

----------------------------------------------------------------------------
\* Claims about proving and verifying.

\* The number of circuits and of instances per circuit of the last proof.
BatchCircuits == Cardinality(DOMAIN proof.val.inputs)
BatchInstances == Len(proof.val.inputs[CHOOSE c \in DOMAIN proof.val.inputs : TRUE])

\* C1: in hiding and in non-hiding mode, the proof of one circuit verifies
\* (Ok(true)) under the matching verifying key and the genuine public inputs,
\* and verification returns Ok(false), no error and no panic, when the public
\* inputs are replaced by a random vector of the same shape.
C1_ProofVerifies ==
    \A mode \in HidingModes :
        ( /\ snark_ret.call = "verify_batch"
          /\ proof.val.proof.mode = mode
          /\ BatchCircuits = 1 /\ BatchInstances = 1 )
            => snark_ret.result = Ok(~snark_ret.replaced)

C1_Witness ==
    /\ snark_ret.call = "verify_batch"
    /\ proof.val.proof.mode = "VarunaHidingMode"
    /\ BatchCircuits = 1 /\ BatchInstances = 1
    /\ snark_ret.replaced
    /\ snark_ret.result = Ok(FALSE)

\* C2: for every batch of distinct circuits with the same number of instances
\* each, verify_batch on the proof of prove_batch returns true under the
\* matching keys and the genuine public inputs, and false as soon as the
\* public input of one instance of one circuit is replaced by a random value
\* of the same shape, all others left genuine.
C2_BatchVerifies ==
    snark_ret.call = "verify_batch" =>
        /\ snark_ret.result.kind = "ok"
        /\ snark_ret.result.val = TRUE <=> ~snark_ret.replaced

C2_Witness ==
    /\ snark_ret.call = "verify_batch"
    /\ BatchCircuits = 2 /\ BatchInstances = MaxInstances
    /\ snark_ret.replaced
    /\ snark_ret.result = Ok(FALSE)

\* C11: for every circuit, the certificate that prove_vk returns for the
\* proving key and the verifying key that circuit_setup derived from the
\* circuit makes verify_vk return true for that circuit and that key; no proof
\* of an execution takes part.
C11_CertificateVerifies ==
    (snark_ret.call = "verify_vk" /\ snark_ret.claimed = snark_ret.circuit)
        => snark_ret.result = Ok(TRUE)

\* A certificate of the larger circuit that verified before any proof was made.
C11_Witness ==
    /\ snark_ret.call = "verify_vk"
    /\ snark_ret.circuit = "c2" /\ snark_ret.claimed = "c2"
    /\ snark_ret.result = Ok(TRUE)
    /\ ~proof.some

\* C13: the prover key of a batch is made from the largest max_degree and
\* the largest max_domain_size of its circuits and from the union of their
\* degree bounds, so it holds the degree bounds of each circuit, and
\* prove_batch succeeds with this one key for every circuit of the batch.
C13_BatchProverKey ==
    /\ snark_ret.call = "prove_batch" => snark_ret.result = "ok"
    /\ proof.some =>
            LET key == proof.val.prover
                is_zk == proof.val.proof.mode = "VarunaHidingMode"
                circuits == {TestCircuits[c] : c \in DOMAIN proof.val.inputs}
                bounds(circuit) == elements(get_degree_bounds(circuit.index_info, FALSE).val)
            IN  /\ \A circuit \in circuits :
                        /\ max_degree(circuit.index_info, is_zk).val <= key.max_degree
                        /\ max_domain_size(circuit) <= key.max_domain_size
                        /\ bounds(circuit) \subseteq key.enforced_degree_bounds
                /\ \E circuit \in circuits : max_degree(circuit.index_info, is_zk).val = key.max_degree
                /\ \E circuit \in circuits : max_domain_size(circuit) = key.max_domain_size
                /\ \A b \in key.enforced_degree_bounds : \E circuit \in circuits : b \in bounds(circuit)

\* A proof of a batch of two circuits with different degree bounds, domain
\* sizes and degrees, made with one prover key.
C13_Witness ==
    /\ snark_ret.call = "prove_batch" /\ snark_ret.result = "ok"
    /\ snark_ret.mode = "VarunaNonHidingMode"
    /\ BatchCircuits = 2
    /\ proof.val.prover.enforced_degree_bounds = {0, 2}
    /\ proof.val.prover.max_domain_size = 4
    /\ max_domain_size(TestCircuits["c1"]) = 2
    /\ max_degree(TestCircuits["c1"].index_info, FALSE).val < proof.val.prover.max_degree

AppendOnly ==
    /\ Len(srs') >= Len(srs)
    /\ \A i \in 1 .. Len(srs) : srs'[i] = srs[i]

\* What a key specialization saw of the table while a download was in
\* flight: the table as it was published then, before the extension, or the
\* table with every power of the download, after it.
SeesWholeTable ==
    (snark_ret.call = "to_universal_prover" /\ snark_ret.in_flight.some) =>
        \/ snark_ret.held = snark_ret.published
        \/ snark_ret.held = Max(snark_ret.published, snark_ret.in_flight.val.upto)

VerifyStep == snark_ret'.call \in {"verify_first", "verify_batch", "verify_kept", "verify_vk"} /\ snark_ret' # snark_ret

C3_KeysSurviveExtension ==
    /\ snark_ret.call = "circuit_setup" =>
            /\ first_keys[snark_ret.circuit].some
            /\ first_keys[snark_ret.circuit].val.pk = snark_ret.pk
            /\ first_keys[snark_ret.circuit].val.vk = snark_ret.vk
    /\ proof.some =>
            \A c \in DOMAIN proof.val.vks :
                /\ circuit_setup(srs, TestCircuits[c]).vk = proof.val.vks[c]
                /\ first_keys[c].some => first_keys[c].val.vk = proof.val.vks[c]
    /\ (snark_ret.call = "verify_batch" /\ ~snark_ret.replaced /\ snark_ret.extended)
            => snark_ret.result = Ok(TRUE)

\* A proof made before an extension of the SRS that verifies after it under
\* keys derived after it, for circuits whose first keys were derived before it.
C3_Witness ==
    /\ snark_ret.call = "verify_batch"
    /\ snark_ret.extended /\ snark_ret.rederived /\ ~snark_ret.replaced
    /\ snark_ret.result = Ok(TRUE)
    /\ \A c \in DOMAIN proof.val.inputs :
            first_keys[c].some /\ first_keys[c].val.powers < Len(srs)

----------------------------------------------------------------------------
\* Claims about the committee.

C30_AllOrError ==
    /\ [](txs_ret.call = "returned" =>
            txs_ret.result = IF txs_ret.invalid = {} THEN Ok(<<>>)
                             ELSE Err("Invalid transaction found in the transactions list"))
    /\ [](others_in(verifying) > 0 =>
            /\ deployments_in(verifying) = 0
            /\ \A k \in 1 .. Len(chunks) : deployments_in(chunks[k]) = 0)
    /\ [][ (txs_ret.call = "check_transactions" /\ txs_ret.failed /\ verifying = <<>>)
                => verifying' = <<>> ]_vars

\* The first transaction of a list, a deployment, failed; its chunk is done,
\* and the chunk of the other transactions, with another invalid one, waits.
C30_Witness ==
    /\ txs_ret.call = "check_transactions"
    /\ txs_ret.failed
    /\ verifying = <<>>
    /\ chunks # <<>>
    /\ others_in(chunks[Len(chunks)]) > 0
    /\ Cardinality(txs_ret.invalid) = 2

====
